---- MODULE Spec2Model ----
(***************************************************************************)
(* Model of the commit-history re-editing store of nice-pr                 *)
(* (src/src/Rebaser.ts, class Rebaser, lines 98-804, with the helpers of   *)
(* src/src/utils.ts it imports).                                           *)
(*                                                                         *)
(* A change is a record; the store is the commit list (newest first), the  *)
(* change list, the index snapshot taken at construction and the derived   *)
(* rebaseCommits tree.  Every public method is one action; a method that   *)
(* throws keeps whatever it had already written when the error was raised. *)
(***************************************************************************)
EXTENDS Integers, Sequences, FiniteSets, TLC

(***************************************************************************)
(* Bounds of the model.                                                    *)
(***************************************************************************)
\* lines of the file "a" at the common ancestor
BaseLen == 3
\* changes (hunks and file operations) of the branches SpecBuild enumerates
MaxChanges == 3
\* store operations performed after construction
MaxOps == 3
\* commits of the branches Spec builds its stores from
StoreCommits == 2

(***************************************************************************)
(* Generic helpers on sequences.                                           *)
(***************************************************************************)
Min(a, b) == IF a <= b THEN a ELSE b

Reverse(s) == [i \in 1..Len(s) |-> s[Len(s) + 1 - i]]

\* Array.prototype.findIndex / indexOf: 0-based position of the first hit, -1 if none
RECURSIVE FirstAt(_, _, _)
FirstAt(s, x, i) ==
  IF i > Len(s) THEN -1
  ELSE IF s[i] = x THEN i - 1
  ELSE FirstAt(s, x, i + 1)

IndexOf(s, x) == FirstAt(s, x, 1)

Includes(s, x) == \E i \in 1..Len(s) : s[i] = x

Hashes(commits) == [i \in 1..Len(commits) |-> commits[i].hash]

Indexes(changes) == [i \in 1..Len(changes) |-> changes[i].index]

(***************************************************************************)
(* utils.ts                                                                *)
(***************************************************************************)
isTextFileChange(change) == change.type = "MODIFY" /\ change.fileType = "text"

\* the line lies in [oldStart, oldStart + (newLines - oldLines)] of a text change
isLineOverlappingWithChange(line, previousChange) ==
  /\ isTextFileChange(previousChange)
  /\ line >= previousChange.oldStart
  /\ line <= previousChange.oldStart
               + (previousChange.newLines - previousChange.oldLines)

\* the "-"/"+" lines of a chunk, other line kinds dropped
RECURSIVE ChunkLines(_)
ChunkLines(lineChanges) ==
  IF lineChanges = <<>> THEN <<>>
  ELSE LET l == Head(lineChanges)
           rest == ChunkLines(Tail(lineChanges))
       IN IF l.type = "DeletedLine" THEN <<(<<"-", l.content>>)>> \o rest
          ELSE IF l.type = "AddedLine" THEN <<(<<"+", l.content>>)>> \o rest
          ELSE rest

\* the fields every change record carries; a change without line data has
\* zero ranges and no lines
BaseChange(type, fileType, index, dependencies, hash, path, oldFileName) ==
  [type |-> type, fileType |-> fileType, index |-> index,
   dependencies |-> dependencies, hash |-> hash, originalHash |-> hash,
   path |-> path, oldFileName |-> oldFileName,
   oldStart |-> 0, oldLines |-> 0, newStart |-> 0, newLines |-> 0,
   lines |-> <<>>]

mapChunkToFileChange(chunk, hash, path, index, dependencies) ==
  IF chunk.type = "BinaryFilesChunk"
  THEN BaseChange("MODIFY", "binary", index, dependencies, hash, path, "")
  ELSE [BaseChange("MODIFY", "text", index, dependencies, hash, path, "")
          EXCEPT !.oldStart = chunk.fromFileRange.start,
                 !.oldLines = chunk.fromFileRange.lines,
                 !.newStart = chunk.toFileRange.start,
                 !.newLines = chunk.toFileRange.lines,
                 !.lines = ChunkLines(chunk.changes)]

(***************************************************************************)
(* Rebaser.getFileChangesOfCommits                                         *)
(***************************************************************************)
\* the filter of lines 235-247: && binds tighter than ||, so only the ADD
\* test is restricted to the chunk's own path
IsDependencyOfChunk(prevChange, chunk, path) ==
  \/ (prevChange.path = path /\ prevChange.type = "ADD")
  \/ prevChange.type = "RENAME"
  \/ (chunk.type = "Chunk"
        /\ isLineOverlappingWithChange(chunk.fromFileRange.start, prevChange))

ChunkDependencies(fileChanges, chunk, path) ==
  Indexes(SelectSeq(fileChanges,
                    LAMBDA prevChange : IsDependencyOfChunk(prevChange, chunk, path)))

\* a variant that only takes the modifications of the path
PathDependenciesOfModifications(fileChanges, path) ==
  Indexes(SelectSeq(fileChanges, LAMBDA prevChange :
                      prevChange.path = path /\ prevChange.type = "MODIFY"))

PathDependencies(fileChanges, path) ==
  Indexes(SelectSeq(fileChanges, LAMBDA prevChange : prevChange.path = path))

\* a variant that takes the index once for the whole entry
ChunkChangesOfOneIndex(chunks, hash, path, fileChanges) ==
  [k \in 1..Len(chunks) |->
     mapChunkToFileChange(chunks[k], hash, path, Len(fileChanges),
                          ChunkDependencies(fileChanges, chunks[k], path))]

\* the changes of the chunks of one file entry; every chunk sees the change
\* list as it was before the first chunk of the entry was mapped
ChunkChanges(chunks, hash, path, fileChanges) ==
  [k \in 1..Len(chunks) |->
     mapChunkToFileChange(chunks[k], hash, path, Len(fileChanges) + k - 1,
                          ChunkDependencies(fileChanges, chunks[k], path))]

FileOperationChange(diffChange, hash, fileChanges) ==
  CASE diffChange.type = "AddedFile" ->
         <<BaseChange("ADD", "none", Len(fileChanges), <<>>, hash,
                      diffChange.path, "")>>
    [] diffChange.type = "DeletedFile" ->
         <<BaseChange("DELETE", "none", Len(fileChanges),
                      PathDependencies(fileChanges, diffChange.path), hash,
                      diffChange.path, "")>>
    [] diffChange.type = "RenamedFile" ->
         <<BaseChange("RENAME", "none", Len(fileChanges),
                      PathDependencies(fileChanges, diffChange.pathBefore), hash,
                      diffChange.path, diffChange.pathBefore)>>
    [] OTHER -> <<>>

\* the inner loop over the file entries of one commit; the `break` of line 219
\* leaves this loop, so the entries after a DeletedFile are not visited
RECURSIVE DiffChanges(_, _, _)
DiffChanges(diff, hash, fileChanges) ==
  IF diff = <<>> THEN fileChanges
  ELSE LET diffChange == Head(diff)
           withOperation ==
             fileChanges \o FileOperationChange(diffChange, hash, fileChanges)
       IN IF diffChange.type = "DeletedFile" THEN withOperation
          ELSE DiffChanges(Tail(diff), hash,
                           withOperation \o ChunkChanges(diffChange.chunks, hash,
                                                         diffChange.path,
                                                         withOperation))

RECURSIVE CommitsChanges(_, _)
CommitsChanges(commits, fileChanges) ==
  IF commits = <<>> THEN fileChanges
  ELSE CommitsChanges(Tail(commits),
                      DiffChanges(Head(commits).diff, Head(commits).commit.hash,
                                  fileChanges))

getFileChangesOfCommits(commits) == CommitsChanges(commits, <<>>)

(***************************************************************************)
(* Rebaser.normalizeChanges                                                *)
(***************************************************************************)
RECURSIVE SumSeq(_)
SumSeq(s) == IF s = <<>> THEN 0 ELSE Head(s) + SumSeq(Tail(s))

\* what the change at position j takes off the start of the change at position i
\* (j < i: the loop leaves at the current change); acrossHashOnly selects the
\* oldStart accumulator, which skips the changes of the same commit
NormalizeContribution(changes, i, j, acrossHashOnly) ==
  LET currentChange == changes[i]
      previousChange == changes[j]
  IN IF /\ isTextFileChange(previousChange)
        /\ previousChange.path = currentChange.path
        /\ ~(previousChange.oldStart + previousChange.oldLines
               > currentChange.oldStart)
        /\ ~Includes(currentChange.dependencies, previousChange.index)
        /\ (acrossHashOnly => previousChange.hash # currentChange.hash)
     THEN previousChange.newLines - previousChange.oldLines
     ELSE 0

NormalizeOffset(changes, i, acrossHashOnly) ==
  SumSeq([j \in 1..(i - 1) |->
            NormalizeContribution(changes, i, j, acrossHashOnly)])

normalizeChanges(changes) ==
  [i \in 1..Len(changes) |->
     IF isTextFileChange(changes[i])
     THEN [changes[i] EXCEPT
             !.oldStart = @ - NormalizeOffset(changes, i, TRUE),
             !.newStart = @ - NormalizeOffset(changes, i, FALSE)]
     ELSE changes[i]]

(***************************************************************************)
(* Rebaser.sortChanges: the comparator of lines 328-375 under the engine's  *)
(* Array.prototype.sort, which for an array this short is one run found by *)
(* comparing neighbours followed by a binary insertion of the rest.        *)
(***************************************************************************)
CompareChanges(commits, a, b) ==
  LET aIndex == IndexOf(Hashes(commits), a.hash)
      bIndex == IndexOf(Hashes(commits), b.hash)
      isSameFileAndHash == a.path = b.path /\ a.hash = b.hash
  IN IF isSameFileAndHash /\ a.type # "MODIFY" /\ b.type = "MODIFY" THEN -1
     ELSE IF isSameFileAndHash /\ a.type = "MODIFY" /\ b.type # "MODIFY" THEN 1
     ELSE IF /\ isSameFileAndHash
             /\ a.type = "MODIFY" /\ b.type = "MODIFY"
             /\ a.fileType = "text" /\ b.fileType = "text"
     THEN IF a.oldStart >= b.oldStart /\ a.oldStart <= b.oldStart + b.oldLines
          THEN 1
          ELSE IF b.oldStart >= a.oldStart
                    /\ b.oldStart <= a.oldStart + a.oldLines
          THEN -1
          ELSE a.oldStart - b.oldStart
     ELSE bIndex - aIndex

\* length of the run that starts the array: it goes on while the order of
\* neighbours stays descending (strictly) or stays ascending
RECURSIVE RunLength(_, _, _, _)
RunLength(commits, work, isDescending, idx) ==
  IF idx > Len(work) THEN idx - 1
  ELSE LET order == CompareChanges(commits, work[idx], work[idx - 1])
       IN IF (isDescending /\ order >= 0) \/ (~isDescending /\ order < 0)
          THEN idx - 1
          ELSE RunLength(commits, work, isDescending, idx + 1)

\* 0-based slot of the pivot among work[1..right], by bisection
RECURSIVE InsertionPoint(_, _, _, _, _)
InsertionPoint(commits, work, pivot, left, right) ==
  IF left >= right THEN left
  ELSE LET mid == left + ((right - left) \div 2)
       IN IF CompareChanges(commits, pivot, work[mid + 1]) < 0
          THEN InsertionPoint(commits, work, pivot, left, mid)
          ELSE InsertionPoint(commits, work, pivot, mid + 1, right)

\* start is the 1-based position of the next element to insert
RECURSIVE BinaryInsertionSort(_, _, _)
BinaryInsertionSort(commits, work, start) ==
  IF start > Len(work) THEN work
  ELSE LET pivot == work[start]
           left == InsertionPoint(commits, work, pivot, 0, start - 1)
           moved == [p \in 1..Len(work) |->
                       IF p <= left THEN work[p]
                       ELSE IF p = left + 1 THEN pivot
                       ELSE IF p <= start THEN work[p - 1]
                       ELSE work[p]]
       IN BinaryInsertionSort(commits, moved, start + 1)

sortChanges(commits, changes) ==
  IF Len(changes) < 2 THEN changes
  ELSE LET isDescending == CompareChanges(commits, changes[2], changes[1]) < 0
           run == RunLength(commits, changes, isDescending, 3)
           ascending == IF isDescending
                        THEN [p \in 1..Len(changes) |->
                                IF p <= run THEN changes[run + 1 - p]
                                ELSE changes[p]]
                        ELSE changes
       IN BinaryInsertionSort(commits, ascending, run + 1)

(***************************************************************************)
(* Rebaser.createFileChanges: positions for the current commit order.      *)
(* The copy is updated in place, so a change already visited is read with  *)
(* its rebuilt oldStart and a change not yet visited with its stored one.  *)
(***************************************************************************)
\* the inner loop from position j on; state holds the three locals of the
\* loop: currentHashLineChangesCount, currentLineChangesCount, currentHash
RECURSIVE LineChangesCounts(_, _, _, _, _)
LineChangesCounts(changesCopy, hashIndexes, change, j, state) ==
  IF j > Len(changesCopy) THEN state
  ELSE LET previousChange == changesCopy[j]
       IN IF ~isTextFileChange(previousChange)
               \/ previousChange.path # change.path
          THEN LineChangesCounts(changesCopy, hashIndexes, change, j + 1, state)
          ELSE IF IndexOf(hashIndexes, previousChange.hash)
                    > IndexOf(hashIndexes, change.hash)
          THEN state
          ELSE LET counted ==
                     IF /\ previousChange.oldStart < change.oldStart
                        /\ ~Includes(change.dependencies, previousChange.index)
                     THEN state.currentLineChangesCount
                            + (previousChange.newLines - previousChange.oldLines)
                     ELSE state.currentLineChangesCount
                   isNewHash == previousChange.hash # state.currentHash
               IN LineChangesCounts(
                    changesCopy, hashIndexes, change, j + 1,
                    [currentHashLineChangesCount |->
                       IF isNewHash THEN counted
                       ELSE state.currentHashLineChangesCount,
                     currentLineChangesCount |-> counted,
                     currentHash |->
                       IF isNewHash THEN previousChange.hash
                       ELSE state.currentHash])

RECURSIVE RebuildFrom(_, _, _)
RebuildFrom(changesCopy, hashIndexes, k) ==
  IF k > Len(changesCopy) THEN changesCopy
  ELSE IF ~isTextFileChange(changesCopy[k])
  THEN RebuildFrom(changesCopy, hashIndexes, k + 1)
  ELSE LET counts ==
             LineChangesCounts(changesCopy, hashIndexes, changesCopy[k], 1,
                               [currentHashLineChangesCount |-> 0,
                                currentLineChangesCount |-> 0,
                                currentHash |-> changesCopy[1].hash])
       IN RebuildFrom(
            [changesCopy EXCEPT
               ![k].oldStart = @ + counts.currentHashLineChangesCount,
               ![k].newStart = @ + counts.currentLineChangesCount],
            hashIndexes, k + 1)

createFileChanges(commits, changes) ==
  RebuildFrom(changes, Reverse(Hashes(commits)), 1)

(***************************************************************************)
(* Rebaser.getOriginalChangeReferences                                     *)
(***************************************************************************)
ChangesOf(changes, hash, path) ==
  SelectSeq(changes, LAMBDA change : change.hash = hash /\ change.path = path)

getOriginalChangeReferences(changes) ==
  [ref \in {<<changes[i].hash, changes[i].path>> : i \in 1..Len(changes)} |->
     Indexes(ChangesOf(changes, ref[1], ref[2]))]

(***************************************************************************)
(* Rebaser.getRebaseCommits                                                *)
(***************************************************************************)
\* line 501 reads rebaseCommitsByHash[change.hash].files: a change that is not
\* in trash and whose hash names no commit makes the method throw
CanAssemble(commits, changes) ==
  \A i \in 1..Len(changes) :
     changes[i].hash = "trash" \/ Includes(Hashes(commits), changes[i].hash)

\* 1-based position of the first element with this index (Array.find)
PositionOfIndex(changesCopy, index) == IndexOf(Indexes(changesCopy), index) + 1

\* a variant that looks for the dependency on the wrong side of the change
IsSetAfterDependent(changesCopy, k) ==
  \E d \in 1..Len(changesCopy[k].dependencies) :
     LET at == PositionOfIndex(changesCopy, changesCopy[k].dependencies[d])
     IN at < k /\ changesCopy[at].hash # "trash"

IsSetBeforeDependent(changesCopy, k) ==
  \E d \in 1..Len(changesCopy[k].dependencies) :
     LET at == PositionOfIndex(changesCopy, changesCopy[k].dependencies[d])
     IN at > k /\ changesCopy[at].hash # "trash"

FilePosition(files, fileName) ==
  IndexOf([f \in 1..Len(files) |-> files[f].fileName], fileName) + 1

\* a variant in which a new file entry sets the flag of the commit anew
AddChangeToCommitAnew(rebaseCommit, change, isSetBeforeDependent) ==
  LET f == FilePosition(rebaseCommit.files, change.path)
      entry == [change |-> change, isSetBeforeDependent |-> isSetBeforeDependent]
  IN IF f > 0
     THEN [rebaseCommit EXCEPT
             !.hasChangeSetBeforeDependent = @ \/ isSetBeforeDependent,
             !.files[f].hasChangeSetBeforeDependent = @ \/ isSetBeforeDependent,
             !.files[f].changes = Append(@, entry)]
     ELSE [rebaseCommit EXCEPT
             !.hasChangeSetBeforeDependent = isSetBeforeDependent,
             !.files = Append(@, [fileName |-> change.path,
                                  changes |-> <<entry>>,
                                  hasChangeSetBeforeDependent |->
                                     isSetBeforeDependent,
                                  hasChanges |-> FALSE])]

\* lines 523-549 for one change: the commit entry after the change was added
AddChangeToCommit(rebaseCommit, change, isSetBeforeDependent) ==
  LET f == FilePosition(rebaseCommit.files, change.path)
      entry == [change |-> change, isSetBeforeDependent |-> isSetBeforeDependent]
  IN IF f > 0
     THEN [rebaseCommit EXCEPT
             !.hasChangeSetBeforeDependent = @ \/ isSetBeforeDependent,
             !.files[f].hasChangeSetBeforeDependent = @ \/ isSetBeforeDependent,
             !.files[f].changes = Append(@, entry)]
     ELSE [rebaseCommit EXCEPT
             !.hasChangeSetBeforeDependent =
                IF @ THEN TRUE ELSE isSetBeforeDependent,
             !.files = Append(@, [fileName |-> change.path,
                                  changes |-> <<entry>>,
                                  hasChangeSetBeforeDependent |->
                                     isSetBeforeDependent,
                                  hasChanges |-> FALSE])]

\* the loop of lines 496-550 from position k on; byHash is kept in the order
\* of the commit list
RECURSIVE GroupChanges(_, _, _, _)
GroupChanges(commits, changesCopy, k, byHash) ==
  IF k > Len(changesCopy) THEN byHash
  ELSE IF changesCopy[k].hash = "trash"
  THEN GroupChanges(commits, changesCopy, k + 1, byHash)
  ELSE LET c == IndexOf(Hashes(commits), changesCopy[k].hash) + 1
       IN GroupChanges(commits, changesCopy, k + 1,
                       [byHash EXCEPT ![c] =
                          AddChangeToCommit(@, changesCopy[k],
                                            IsSetBeforeDependent(changesCopy, k))])

EntryIndexes(file) == [i \in 1..Len(file.changes) |-> file.changes[i].change.index]

\* lines 552-574
HasChanges(originalChangeReferences, hash, file) ==
  IF <<hash, file.fileName>> \notin DOMAIN originalChangeReferences THEN TRUE
  ELSE EntryIndexes(file) # originalChangeReferences[<<hash, file.fileName>>]

getRebaseCommits(commits, changes, originalChangeReferences) ==
  LET empty == [c \in 1..Len(commits) |->
                  [hash |-> commits[c].hash, message |-> commits[c].message,
                   files |-> <<>>, hasChangeSetBeforeDependent |-> FALSE]]
      grouped == GroupChanges(commits, createFileChanges(commits, changes), 1,
                              empty)
  IN [c \in 1..Len(commits) |->
        [grouped[c] EXCEPT !.files =
           [f \in 1..Len(grouped[c].files) |->
              [grouped[c].files[f] EXCEPT !.hasChanges =
                 HasChanges(originalChangeReferences, grouped[c].hash,
                            grouped[c].files[f])]]]]

(***************************************************************************)
(* Rebaser.getTrash                                                        *)
(***************************************************************************)
RECURSIVE GroupTrash(_, _)
GroupTrash(trashChanges, trash) ==
  IF trashChanges = <<>> THEN trash
  ELSE LET change == Head(trashChanges)
           f == FilePosition(trash, change.path)
           entry == [change |-> change, isSetBeforeDependent |-> FALSE]
       IN GroupTrash(Tail(trashChanges),
                     IF f > 0
                     THEN [trash EXCEPT ![f].changes = Append(@, entry)]
                     ELSE Append(trash, [fileName |-> change.path,
                                         changes |-> <<entry>>,
                                         hasChangeSetBeforeDependent |-> FALSE,
                                         hasChanges |-> FALSE]))

getTrash(changes) ==
  GroupTrash(SelectSeq(changes, LAMBDA change : change.hash = "trash"), <<>>)

(***************************************************************************)
(* Rebaser.applyChanges, lines 653-687.  A text is kept as the array that  *)
(* text.split("\n") gives: "" is the array of one empty line, and a file   *)
(* that ends with a newline has an empty last element.  The empty line is  *)
(* written 0; an undefined element joins as the empty line too.            *)
(***************************************************************************)
EmptyLine == 0

\* Array.prototype.join("\n") followed by split("\n")
JoinLines(lines) == IF lines = <<>> THEN <<EmptyLine>> ELSE lines

\* lines[i] for a 0-based i, undefined outside the array
LineAt(lines, i) == IF i >= 0 /\ i < Len(lines) THEN lines[i + 1] ELSE EmptyLine

\* lines[from], ..., lines[to - 1]
LinesFromTo(lines, from, to) ==
  [k \in 1..(IF to > from THEN to - from ELSE 0) |-> LineAt(lines, from + k - 1)]

\* Array.prototype.slice(0, end) with end < 0 counted from the end of the array
SliceTo(lines, end) ==
  LET stop == IF end < 0 THEN (IF Len(lines) + end > 0 THEN Len(lines) + end ELSE 0)
              ELSE Min(end, Len(lines))
  IN SubSeq(lines, 1, stop)

DeletedLines(hunk) ==
  LET minus == SelectSeq(hunk.lines, LAMBDA l : l[1] = "-")
  IN [k \in 1..Len(minus) |-> minus[k][2]]

InsertedLines(hunk) ==
  LET plus == SelectSeq(hunk.lines, LAMBDA l : l[1] = "+")
  IN [k \in 1..Len(plus) |-> plus[k][2]]

\* applyPatch of the package "diff" (^7.0.0, part_003 line 212) for one hunk
\* and fuzzFactor 0.  applyHunk: the hunk fits at the 0-based toPos when its
\* "-" lines are the lines found there
HunkFitsAt(lines, hunk, toPos) ==
  \A k \in 1..Len(DeletedLines(hunk)) :
     /\ toPos + k - 1 >= 0 /\ toPos + k - 1 < Len(lines)
     /\ lines[toPos + k] = DeletedLines(hunk)[k]

Distance(a, b) == IF a >= b THEN a - b ELSE b - a

\* the positions tried: oldStart - 1 first, then distanceIterator(toPos, 0,
\* maxLine), which goes one further forward (up to maxLine), then backward
\* (down to 0), and so on; NoPosition stands for "no position fits"
NoPosition == -1000

HunkPosition(lines, hunk) ==
  LET start == hunk.oldStart - 1
      maxLine == Len(lines) - hunk.oldLines
      tried == {start} \cup {q \in (start + 1)..maxLine : TRUE}
                       \cup {q \in 0..(start - 1) : TRUE}
      fitting == {q \in tried : HunkFitsAt(lines, hunk, q)}
  IN IF fitting = {} THEN NoPosition
     ELSE CHOOSE q \in fitting :
            \A r \in fitting :
               \/ Distance(q, start) < Distance(r, start)
               \/ Distance(q, start) = Distance(r, start) /\ q >= r

\* a variant that copies the rest of the old text from the start of the hunk
PatchedTextKeepingDeleted(lines, hunk, toPos) ==
  LinesFromTo(lines, 0, toPos) \o InsertedLines(hunk)
    \o LinesFromTo(lines, toPos, Len(lines))

\* the old lines before toPos, the lines the hunk produces, and the old lines
\* from minLine = oldLineLastI + 1 on
PatchedText(lines, hunk, toPos) ==
  LinesFromTo(lines, 0, toPos) \o InsertedLines(hunk)
    \o LinesFromTo(lines, toPos + Len(DeletedLines(hunk)), Len(lines))

\* the text, or <<>> for the result false
applyPatch(source, hunk) ==
  LET toPos == HunkPosition(source, hunk)
  IN IF toPos = NoPosition THEN <<>>
     ELSE JoinLines(PatchedText(source, hunk, toPos))

\* the reduce of lines 654-662; <<>> is the accumulator false
RECURSIVE PatchAll(_, _)
PatchAll(acc, fileChanges) ==
  IF fileChanges = <<>> THEN acc
  ELSE PatchAll(IF acc = <<>> \/ ~isTextFileChange(Head(fileChanges)) THEN acc
                ELSE applyPatch(acc, Head(fileChanges)),
                Tail(fileChanges))

ExpectedLineNumberChange(fileChanges) ==
  SumSeq([k \in 1..Len(fileChanges) |->
            IF isTextFileChange(fileChanges[k])
            THEN fileChanges[k].newLines - fileChanges[k].oldLines ELSE 0])

applyChanges(document, fileChanges) ==
  LET result == PatchAll(document, fileChanges)
      lineNumberChange == Len(result) - Len(document)
  IN IF result = <<>> THEN [threw |-> TRUE, text |-> <<>>]
     ELSE IF ExpectedLineNumberChange(fileChanges) # lineNumberChange
     THEN [threw |-> FALSE,
           text |-> JoinLines(SliceTo(result, 0 - lineNumberChange))]
     ELSE [threw |-> FALSE, text |-> result]

(***************************************************************************)
(* The branches the store is built from.  NicePR.setRebaseMode (REBASING)  *)
(* runs `git diff --unified=0 <commit>^ <commit>` for every commit of the  *)
(* branch, oldest first, and hands the parsed diffs to the constructor.    *)
(* A branch is generated from the documents it edits, so that every hunk   *)
(* carries the numbers and lines git prints for that edit.  A line is      *)
(* identified by a number; lines written by a commit get fresh numbers.    *)
(***************************************************************************)
Paths == {"a", "b"}

OtherPath(p) == IF p = "a" THEN "b" ELSE "a"

CommitNames == <<"c1", "c2", "c3">>

\* <<deleted lines, inserted lines>> of a hunk
Shapes == {<<0, 1>>, <<0, 2>>, <<1, 0>>, <<1, 1>>, <<1, 2>>, <<2, 1>>}

\* the hunks of the branches the store operations are explored on
StoreShapes == {<<1, 0>>, <<1, 1>>, <<1, 2>>}

BaseFiles ==
  [p \in Paths |->
     IF p = "a" THEN [state |-> "text", doc |-> [i \in 1..BaseLen |-> i]]
     ELSE [state |-> "absent", doc |-> <<>>]]

\* an edit replaces the lines at..at+del-1 of the old document by ins new lines;
\* the narrow family keeps to the first two lines and to StoreShapes
Edits(doc, wide) ==
  {[at |-> at, del |-> sh[1], ins |-> sh[2]] :
     at \in 1..(IF wide THEN Len(doc) + 1 ELSE Min(2, Len(doc) + 1)),
     sh \in (IF wide THEN Shapes ELSE StoreShapes)}

ValidEdits(doc, wide) == {e \in Edits(doc, wide) : e.at + e.del - 1 <= Len(doc)}

\* the edit lists of one file diff: one hunk, or (wide) two hunks with at least
\* one unchanged line between them; room is the number of changes still allowed
EditLists(doc, wide, room) ==
  (IF room >= 1 THEN {<<e>> : e \in ValidEdits(doc, wide)} ELSE {})
    \cup (IF wide /\ room >= 2
          THEN {pair \in ValidEdits(doc, wide) \X ValidEdits(doc, wide) :
                  pair[2].at > pair[1].at + pair[1].del}
          ELSE {})

FreshLine(commitNo, entryNo, hunkNo, k) ==
  1000 * commitNo + 100 * entryNo + 10 * hunkNo + k

\* net line delta of the first h edits
RECURSIVE EditsDelta(_, _)
EditsDelta(edits, h) ==
  IF h = 0 THEN 0
  ELSE EditsDelta(edits, h - 1) + edits[h].ins - edits[h].del

\* the hunk `git diff --unified=0` prints for the h-th edit: a range of no
\* lines is printed with the number of the line before it
GitChunk(doc, edits, h, commitNo, entryNo) ==
  LET e == edits[h]
      before == EditsDelta(edits, h - 1)
  IN [type |-> "Chunk",
      fromFileRange |-> [start |-> IF e.del > 0 THEN e.at ELSE e.at - 1,
                         lines |-> e.del],
      toFileRange |-> [start |-> IF e.ins > 0 THEN e.at + before
                                 ELSE e.at + before - 1,
                       lines |-> e.ins],
      changes |-> [k \in 1..(e.del + e.ins) |->
                     IF k <= e.del
                     THEN [type |-> "DeletedLine", content |-> doc[e.at + k - 1]]
                     ELSE [type |-> "AddedLine",
                           content |-> FreshLine(commitNo, entryNo, h, k - e.del)]]]

GitChunks(doc, edits, commitNo, entryNo) ==
  [h \in 1..Len(edits) |-> GitChunk(doc, edits, h, commitNo, entryNo)]

\* the document after the edits, applied last hunk first
RECURSIVE EditedDoc(_, _, _, _, _)
EditedDoc(doc, edits, h, commitNo, entryNo) ==
  IF h = 0 THEN doc
  ELSE LET e == edits[h]
           written == [k \in 1..e.ins |-> FreshLine(commitNo, entryNo, h, k)]
       IN EditedDoc(SubSeq(doc, 1, e.at - 1) \o written
                      \o SubSeq(doc, e.at + e.del, Len(doc)),
                    edits, h - 1, commitNo, entryNo)

BinaryChunk == [type |-> "BinaryFilesChunk"]

Absent == [state |-> "absent", doc |-> <<>>]

FileEntry(type, path, pathBefore, chunks) ==
  [type |-> type, path |-> path, pathBefore |-> pathBefore, chunks |-> chunks]

\* the file entries a commit can have for path p, each with the files after it
\* and the number n of changes it yields, for n <= room
EntriesFor(files, p, commitNo, entryNo, wide, room) ==
  LET q == OtherPath(p)
      doc == files[p].doc
      edited(edits) == EditedDoc(doc, edits, Len(edits), commitNo, entryNo)
      created(ins) == <<[at |-> 1, del |-> 0, ins |-> ins]>>
  IN CASE files[p].state = "text" ->
            {[entry |-> FileEntry("ChangedFile", p, p,
                                  GitChunks(doc, edits, commitNo, entryNo)),
              files |-> [files EXCEPT ![p].doc = edited(edits)],
              n |-> Len(edits)] : edits \in EditLists(doc, wide, room)}
            \cup (IF room < 1 THEN {}
                  ELSE {[entry |-> FileEntry("DeletedFile", p, p, <<>>),
                         files |-> [files EXCEPT ![p] = Absent], n |-> 1]})
            \cup (IF files[q].state # "absent" \/ room < 1 THEN {}
                  ELSE {[entry |-> FileEntry("RenamedFile", q, p,
                                             GitChunks(doc, edits, commitNo,
                                                       entryNo)),
                         files |-> [files EXCEPT
                                      ![p] = Absent,
                                      ![q] = [state |-> "text",
                                              doc |-> edited(edits)]],
                         n |-> 1 + Len(edits)] :
                          edits \in {<<>>} \cup
                                    (IF wide /\ room >= 2
                                     THEN {<<e>> : e \in ValidEdits(doc, wide)}
                                     ELSE {})})
       [] files[p].state = "binary" ->
            IF room < 1 THEN {} ELSE
            {[entry |-> FileEntry("ChangedFile", p, p, <<BinaryChunk>>),
              files |-> files, n |-> 1],
             [entry |-> FileEntry("DeletedFile", p, p, <<>>),
              files |-> [files EXCEPT ![p] = Absent], n |-> 1]}
       [] OTHER ->
            IF room < 2 THEN {} ELSE
            {[entry |-> FileEntry("AddedFile", p, p,
                                  GitChunks(<<>>, created(ins), commitNo,
                                            entryNo)),
              files |-> [files EXCEPT ![p] =
                           [state |-> "text",
                            doc |-> EditedDoc(<<>>, created(ins), 1, commitNo,
                                              entryNo)]],
              n |-> 2] : ins \in 1..(IF wide THEN 2 ELSE 1)}
            \cup {[entry |-> FileEntry("AddedFile", p, p, <<BinaryChunk>>),
                   files |-> [files EXCEPT ![p] = [state |-> "binary",
                                                   doc |-> <<>>]],
                   n |-> 2]}

\* the diffs of one commit with at most room changes: one file entry, or
\* (wide) an entry for "a" followed by an entry for "b" (a rename names both
\* paths and stands alone)
DiffsFor(files, commitNo, wide, room) ==
  LET plain(entries) == {z \in entries : z.entry.type # "RenamedFile"}
      single == {[diff |-> <<x.entry>>, files |-> x.files, n |-> x.n] :
                   x \in UNION {EntriesFor(files, p, commitNo, 1, wide, room) :
                                  p \in Paths}}
      double ==
        UNION {{[diff |-> <<x.entry, y.entry>>, files |-> y.files,
                 n |-> x.n + y.n] :
                  y \in plain(EntriesFor(x.files, "b", commitNo, 2, wide,
                                         room - x.n))} :
               x \in plain(EntriesFor(files, "a", commitNo, 1, wide, room - 1))}
  IN IF wide THEN single \cup double ELSE single

(***************************************************************************)
(* State.                                                                  *)
(***************************************************************************)
VARIABLES
  pc,          \* "git": the branch is being committed; "store": a Rebaser exists
  wide,        \* which family of branches this behaviour draws from
  branch,      \* the commits of the branch, oldest first, and its files
  commits,     \* Rebaser._commits, newest first
  changes,     \* Rebaser._changes
  originalChangeReferences,  \* Rebaser._originalChangeReferences
  rebaseCommits,             \* Rebaser._rebaseCommits
  made,        \* hashes generated so far by generateHash
  ops,         \* store operations called so far
  last,        \* the last store operation and how it ended
  rt,          \* the trash round trip in progress, if any
  mode,        \* NicePR.mode.mode; "PUSHING" once rebase() has been started
  patch,       \* a call of applyChanges: its arguments and what it returned
  nicePR,      \* NicePR._mode and the calls of setRebaseMode in flight
  initializer  \* Initializer._state and the runs of initializeRepo in flight

vars == <<pc, wide, branch, commits, changes, originalChangeReferences,
          rebaseCommits, made, ops, last, rt, mode, patch, nicePR, initializer>>

store == <<commits, changes, originalChangeReferences, rebaseCommits, made,
           ops, last, rt>>

\* generateHash returns "new-" and a random suffix: a hash not seen before
NewNames == <<"n1", "n2">>

\* index is the index of the change a moveChange reassigned (-1 otherwise),
\* hash the hash a removeCommit was called with ("" otherwise), and absent
\* tells that an argument of the call named a commit or a change that is not
\* in the store
Called(op, threw, index, hash, absent) ==
  [op |-> op, threw |-> threw, index |-> index, hash |-> hash,
   absent |-> absent]

NoOp == Called("none", FALSE, -1, "", FALSE)

NoPatch ==
  [stage |-> "none", document |-> <<>>, changes |-> <<>>, threw |-> FALSE,
   result |-> <<>>]

NoRoundTrip ==
  [stage |-> "none", index |-> -1, hash |-> "", target |-> "",
   before |-> <<>>, entry |-> <<>>]

EmptyBranch == [commits |-> <<>>, files |-> BaseFiles, n |-> 0]

(***************************************************************************)
(* A call of NicePR.setRebaseMode (NicePR.ts, lines 1078-1263): the mode   *)
(* asked for, where the call stands (the await it is suspended at), the    *)
(* mode and the Rebaser of NicePR when it was made, the Rebaser it holds   *)
(* in a local (the one built for a suggestion, the one rebase() reads),    *)
(* what it has done to git so far, and the call of PUSHING that made it    *)
(* (0 for a command or the constructor).  Rebasers are told apart by the   *)
(* order they were constructed in; 0 stands for none.                      *)
(***************************************************************************)
Request(requested, at, modeAtCall, rebaserAtCall, parent) ==
  [requested |-> requested, at |-> at, modeAtCall |-> modeAtCall,
   rebaserAtCall |-> rebaserAtCall, rebaser |-> 0, fresh |-> FALSE,
   commit |-> 0, log |-> <<>>, parent |-> parent]

\* what is followed of a Rebaser: how often it was edited, whether its tree
\* has a flagged commit, and whether it went from REBASING to READY_TO_PUSH
NoRebaser == [edits |-> 0, flagged |-> FALSE, approved |-> FALSE]

\* the constructor, lines 980-1004: mode IDLE, and setRebaseMode("IDLE")
\* called without being awaited
NicePRAsConstructed ==
  [mode |-> "IDLE",
   rebaser |-> 0,
   built |-> 0,
   rebasers |-> <<>>,
   requests |-> <<Request("IDLE", "checkBackupBranch", "IDLE", 0, 0)>>]

\* a value assigned to Initializer.state (part_002, lines 549-571): the run
\* of initializeRepo that made it (0 for none), how often its dispose was
\* called, and whether the run that assigned it had been aborted by then
StateObject(state, run, afterAbort) ==
  [state |-> state, run |-> run, disposed |-> 0, afterAbort |-> afterAbort]

\* Initializer after the constructor when no repository is open yet
\* (part_002, lines 573-579, 628-632): the values its state has had, the
\* last being the current one, and the runs of initializeRepo made
InitializerAsConstructed ==
  [objects |-> <<StateObject("IDLE", 0, FALSE)>>, runs |-> <<>>]

InitWith(w) ==
  /\ pc = "git"
  /\ wide = w
  /\ branch = EmptyBranch
  /\ commits = <<>>
  /\ changes = <<>>
  /\ originalChangeReferences = <<>>
  /\ rebaseCommits = <<>>
  /\ made = 0
  /\ ops = 0
  /\ last = NoOp
  /\ rt = NoRoundTrip
  /\ mode = "IDLE"
  /\ patch = NoPatch
  /\ nicePR = NicePRAsConstructed
  /\ initializer = InitializerAsConstructed

Init == InitWith(FALSE)

InitBuild == InitWith(TRUE)

(***************************************************************************)
(* The branch grows by one commit (the developer's work, before the        *)
(* extension is asked to rebase).                                          *)
(***************************************************************************)
GitCommit ==
  /\ pc = "git"
  /\ Len(branch.commits) < (IF wide THEN Len(CommitNames) ELSE StoreCommits)
  /\ \E d \in DiffsFor(branch.files, Len(branch.commits) + 1, wide,
                        MaxChanges - branch.n) :
        /\ branch' = [commits |->
                        Append(branch.commits,
                               [commit |-> [hash |-> CommitNames[
                                                       Len(branch.commits) + 1],
                                            message |-> "m"],
                                diff |-> d.diff]),
                      files |-> d.files,
                      n |-> branch.n + d.n]
  /\ UNCHANGED <<nicePR, initializer, patch, pc, wide, store, mode>>

(***************************************************************************)
(* new Rebaser(commits), lines 110-125, called as NicePR.ts:1192-1207 does: *)
(* with the commits of the branch oldest first; the new store becomes the  *)
(* rebaser of mode REBASING.                                               *)
(***************************************************************************)
ConstructedCommits(input) == Reverse([i \in 1..Len(input) |-> input[i].commit])

ConstructedChanges(input) == normalizeChanges(getFileChangesOfCommits(input))

Construct ==
  /\ pc = "git"
  /\ branch.commits # <<>>
  /\ pc' = "store"
  /\ mode' = "REBASING"
  /\ commits' = ConstructedCommits(branch.commits)
  /\ changes' = ConstructedChanges(branch.commits)
  /\ originalChangeReferences' = getOriginalChangeReferences(changes')
  /\ rebaseCommits' = getRebaseCommits(commits', changes',
                                       originalChangeReferences')
  /\ UNCHANGED <<nicePR, initializer, patch, wide, branch, made, ops, last, rt>>

(***************************************************************************)
(* The arguments the store's methods are called with.  The tree view hands *)
(* over hashes and changes of the tree it last drew (part_002, handleDrop, *)
(* lines 332-425); "ghost" stands for a hash that names no commit, and     *)
(* GhostIndex for a change reference that names no change.                 *)
(***************************************************************************)
HashArgs == {commits[i].hash : i \in 1..Len(commits)} \cup {"ghost"}

GhostIndex == -1

IndexArgs == {changes[i].index : i \in 1..Len(changes)} \cup {GhostIndex}

Messages == {"x"}

\* 1-based position of the commit with this hash, 0 if none (Array.find)
CommitPosition(list, hash) == IndexOf(Hashes(list), hash) + 1

\* a variant that drops the last element whatever the position
RemoveLast(s, p) == SubSeq(s, 1, Len(s) - 1)

RemoveAt(s, p) == SubSeq(s, 1, p - 1) \o SubSeq(s, p + 1, Len(s))

\* Array.prototype.splice(at, 0, x) with a 0-based position
InsertAt(s, at, x) == SubSeq(s, 1, at) \o <<x>> \o SubSeq(s, at + 1, Len(s))

\* this._rebaseCommits = this.getRebaseCommits(): the assignment does not
\* happen when getRebaseCommits throws
Refreshed(newCommits, newChanges) ==
  IF CanAssemble(newCommits, newChanges)
  THEN getRebaseCommits(newCommits, newChanges, originalChangeReferences)
  ELSE rebaseCommits

Returns(op, threw, index, hash, absent) ==
  /\ last' = Called(op, threw, index, hash, absent)
  /\ ops' = ops + 1

CanCall == pc = "store" /\ ops < MaxOps

(***************************************************************************)
(* addCommit, lines 581-590                                                *)
(***************************************************************************)
AddCommit ==
  /\ CanCall
  /\ made < Len(NewNames)
  /\ \E message \in Messages :
        /\ commits' = <<[hash |-> NewNames[made + 1], message |-> message]>>
                        \o commits
        /\ made' = made + 1
        /\ rebaseCommits' = Refreshed(commits', changes)
        /\ Returns("addCommit", ~CanAssemble(commits', changes), -1, "", FALSE)
  /\ rt' = NoRoundTrip
  /\ UNCHANGED <<nicePR, initializer, patch, pc, wide, branch, changes, originalChangeReferences, mode>>

(***************************************************************************)
(* removeCommit, lines 591-605                                             *)
(***************************************************************************)
RemoveCommit ==
  /\ CanCall
  /\ \E hash \in HashArgs :
        LET p == CommitPosition(commits, hash)
            hasFiles == \E i \in 1..Len(changes) : changes[i].hash = hash
        IN IF p = 0 \/ hasFiles
           THEN /\ Returns("removeCommit", TRUE, -1, hash, p = 0)
                /\ UNCHANGED <<commits, rebaseCommits>>
           ELSE /\ commits' = RemoveAt(commits, p)
                /\ rebaseCommits' = Refreshed(commits', changes)
                /\ Returns("removeCommit", ~CanAssemble(commits', changes), -1,
                           hash, FALSE)
  /\ rt' = NoRoundTrip
  /\ UNCHANGED <<nicePR, initializer, patch, pc, wide, branch, changes, originalChangeReferences, made,
                 mode>>

(***************************************************************************)
(* updateCommitMessage, lines 606-616                                      *)
(***************************************************************************)
UpdateCommitMessage ==
  /\ CanCall
  /\ \E hash \in HashArgs, newMessage \in Messages :
        LET p == CommitPosition(commits, hash)
        IN IF p = 0
           THEN /\ Returns("updateCommitMessage", TRUE, -1, "", TRUE)
                /\ UNCHANGED <<commits, rebaseCommits>>
           ELSE /\ commits' = [commits EXCEPT ![p].message = newMessage]
                /\ rebaseCommits' = Refreshed(commits', changes)
                /\ Returns("updateCommitMessage",
                           ~CanAssemble(commits', changes), -1, "", FALSE)
  /\ rt' = NoRoundTrip
  /\ UNCHANGED <<nicePR, initializer, patch, pc, wide, branch, changes, originalChangeReferences, made,
                 mode>>

(***************************************************************************)
(* moveCommit, lines 690-725.  The commit is spliced out of the list       *)
(* before the target is looked up.                                         *)
(***************************************************************************)
\* a variant that also forgets where the changes came from
ToTrashWithoutOrigin(list, hash) ==
  [i \in 1..Len(list) |->
     IF list[i].hash = hash
     THEN [list[i] EXCEPT !.hash = "trash", !.originalHash = "trash"]
     ELSE list[i]]

\* a variant that sends every change to trash
ToTrashEveryChange(list, hash) ==
  [i \in 1..Len(list) |-> [list[i] EXCEPT !.hash = "trash"]]

ToTrash(list, hash) ==
  [i \in 1..Len(list) |->
     IF list[i].hash = hash THEN [list[i] EXCEPT !.hash = "trash"] ELSE list[i]]

\* the call moveCommit(hash, afterRef)
MoveCommitWith(hash, afterRef) ==
  LET p == CommitPosition(commits, hash)
      without == RemoveAt(commits, p)
      targetIndex == IndexOf(Hashes(without), afterRef)
  IN /\ CASE p = 0 ->
               /\ Returns("moveCommit", TRUE, -1, "", TRUE)
               /\ UNCHANGED <<commits, changes, rebaseCommits>>
          [] p # 0 /\ afterRef = "trash" ->
               /\ commits' = without
               /\ changes' = sortChanges(without, ToTrash(changes, hash))
               /\ Returns("moveCommit", FALSE, -1, "", FALSE)
               /\ UNCHANGED rebaseCommits
          [] p # 0 /\ afterRef # "trash" /\ targetIndex = -1 ->
               /\ commits' = without
               /\ Returns("moveCommit", TRUE, -1, "",
                          ~Includes(Hashes(commits), afterRef))
               /\ UNCHANGED <<changes, rebaseCommits>>
          [] OTHER ->
               /\ commits' = InsertAt(without, targetIndex, commits[p])
               /\ changes' = sortChanges(commits', changes)
               /\ rebaseCommits' = Refreshed(commits', changes')
               /\ Returns("moveCommit", ~CanAssemble(commits', changes'), -1,
                          "", FALSE)
     /\ rt' = NoRoundTrip
     /\ UNCHANGED <<nicePR, initializer, patch, pc, wide, branch, originalChangeReferences, made,
                    mode>>

MoveCommit ==
  /\ CanCall
  /\ \E hash \in HashArgs, afterRef \in HashArgs \cup {"trash"} :
        MoveCommitWith(hash, afterRef)

(***************************************************************************)
(* moveChange, lines 727-733, with getChangeFromRef, lines 377-387         *)
(***************************************************************************)
\* a variant that looks the index up among the changes of every file
getChangeFromAnyFile(list, fileName, index) == IndexOf(Indexes(list), index) + 1

\* 1-based position of the change a reference names, 0 if none
getChangeFromRef(list, fileName, index) ==
  IndexOf([i \in 1..Len(list) |->
             IF list[i].path = fileName THEN list[i].index ELSE GhostIndex - 1],
          index) + 1

\* the file entry of the tree for a commit and a file, as a sequence of at
\* most one element
TreeEntry(tree, hash, fileName) ==
  LET c == CommitPosition(tree, hash)
  IN IF c = 0 THEN <<>>
     ELSE SelectSeq(tree[c].files, LAMBDA file : file.fileName = fileName)

\* the tree a caller reads is the one assembled from the commits and changes
Fresh ==
  /\ CanAssemble(commits, changes)
  /\ rebaseCommits = getRebaseCommits(commits, changes,
                                      originalChangeReferences)

\* what is remembered of a change moved to trash (from a commit, with the tree
\* up to date) and of the move that takes it out of trash right after
RoundTrip(k, targetHash, threw) ==
  CASE ~threw /\ targetHash = "trash" /\ changes[k].hash # "trash" /\ Fresh ->
         [stage |-> "trashed", index |-> changes[k].index,
          hash |-> changes[k].hash, target |-> "", before |-> <<changes[k]>>,
          entry |-> TreeEntry(rebaseCommits, changes[k].hash, changes[k].path)]
    [] ~threw /\ targetHash # "trash" /\ rt.stage = "trashed"
         /\ rt.index = changes[k].index ->
         [rt EXCEPT !.stage = "restored", !.target = targetHash]
    [] OTHER -> NoRoundTrip

\* the call moveChange(fileName, change of this index, targetHash)
MoveChangeWith(fileName, index, targetHash) ==
  LET k == getChangeFromRef(changes, fileName, index)
      isAbsent ==
        \/ ~\E i \in 1..Len(changes) :
               changes[i].path = fileName /\ changes[i].index = index
        \/ ~Includes(Hashes(commits) \o <<"trash">>, targetHash)
  IN /\ IF k = 0
        THEN /\ Returns("moveChange", TRUE, -1, "", isAbsent)
             /\ rt' = NoRoundTrip
             /\ UNCHANGED <<changes, rebaseCommits>>
        ELSE /\ changes' = sortChanges(commits,
                                       [changes EXCEPT ![k].hash = targetHash])
             /\ rebaseCommits' = Refreshed(commits, changes')
             /\ Returns("moveChange", ~CanAssemble(commits, changes'), index,
                        "", isAbsent)
             /\ rt' = RoundTrip(k, targetHash,
                                ~CanAssemble(commits, changes'))
     /\ UNCHANGED <<nicePR, initializer, patch, pc, wide, branch, commits, originalChangeReferences,
                    made, mode>>

MoveChange ==
  /\ CanCall
  /\ \E fileName \in Paths, index \in IndexArgs,
        targetHash \in HashArgs \cup {"trash"} :
        MoveChangeWith(fileName, index, targetHash)

(***************************************************************************)
(* setSuggestedRebaseCommits, lines 780-803.  The commit list is replaced  *)
(* first; the diffs are then taken one by one, and an error leaves the     *)
(* assignments made before it.  NicePR calls it on the store it has just   *)
(* constructed (NicePR.ts, lines 1120-1156), before any other method, and  *)
(* makes the store its rebaser (lines 1158-1161) only when the call        *)
(* returns: after a throw NicePR is left without a rebaser.                *)
(***************************************************************************)
\* a variant of the loop that gives a dropped change a commit as well
RECURSIVE AssignDiffsKeepingDropped(_, _, _)
AssignDiffsKeepingDropped(list, newCommits, diffs) ==
  IF diffs = <<>> THEN [changes |-> list, threw |-> FALSE]
  ELSE LET diff == Head(diffs)
           k == IndexOf(Indexes(list), diff.index) + 1
       IN IF k = 0 THEN [changes |-> list, threw |-> TRUE]
          ELSE IF diff.commitIndex + 1 \notin 1..Len(newCommits)
          THEN [changes |-> list, threw |-> TRUE]
          ELSE AssignDiffsKeepingDropped(
                 [list EXCEPT ![k].hash = newCommits[diff.commitIndex + 1].hash],
                 newCommits, Tail(diffs))

\* the loop of lines 786-798: the changes after it, and whether it threw
RECURSIVE AssignDiffs(_, _, _)
AssignDiffs(list, newCommits, diffs) ==
  IF diffs = <<>> THEN [changes |-> list, threw |-> FALSE]
  ELSE LET diff == Head(diffs)
           k == IndexOf(Indexes(list), diff.index) + 1
       IN IF k = 0 THEN [changes |-> list, threw |-> TRUE]
          ELSE IF diff.isDropped
          THEN AssignDiffs([list EXCEPT ![k].hash = "trash"], newCommits,
                           Tail(diffs))
          ELSE IF diff.commitIndex + 1 \notin 1..Len(newCommits)
          THEN [changes |-> list, threw |-> TRUE]
          ELSE AssignDiffs([list EXCEPT ![k].hash =
                              newCommits[diff.commitIndex + 1].hash],
                           newCommits, Tail(diffs))

SuggestionShapes ==
  {"one", "spread", "dropFirst", "noCommit", "noChange", "partial"}

\* the diffs of a response for k commits; getSuggestionDiffs (lines 757-779)
\* lists the changes in store order
SuggestedDiffs(shape, k) ==
  LET n == Len(changes)
      diff(i, isDropped, commitIndex) ==
        [index |-> changes[i].index, isDropped |-> isDropped,
         commitIndex |-> commitIndex]
      all == [i \in 1..n |-> diff(i, FALSE, 0)]
  IN CASE shape = "one" -> all
       [] shape = "spread" -> [i \in 1..n |-> diff(i, FALSE, (i - 1) % k)]
       [] shape = "dropFirst" -> [i \in 1..n |-> diff(i, i = 1, 0)]
       [] shape = "noCommit" -> [i \in 1..n |-> diff(i, FALSE, IF i = n THEN k ELSE 0)]
       [] shape = "noChange" ->
            Append(SubSeq(all, 1, n - 1),
                   [index |-> GhostIndex, isDropped |-> FALSE, commitIndex |-> 0])
       [] OTHER -> SubSeq(all, 1, n - 1)

\* the call for a response of k commit messages whose diffs have this shape
SuggestedCommits(k) ==
  [i \in 1..k |-> [hash |-> NewNames[made + i], message |-> "s"]]

SetSuggestedRebaseCommitsWith(k, shape) ==
  LET newCommits == SuggestedCommits(k)
      assigned == AssignDiffs(changes, newCommits, SuggestedDiffs(shape, k))
  IN /\ commits' = newCommits
     /\ made' = made + k
     /\ IF assigned.threw
        THEN /\ changes' = assigned.changes
             /\ Returns("setSuggestedRebaseCommits", TRUE, -1, "", TRUE)
             /\ mode' = "IDLE"
             /\ UNCHANGED rebaseCommits
        ELSE /\ changes' = sortChanges(newCommits, assigned.changes)
             /\ rebaseCommits' = Refreshed(newCommits, changes')
             /\ Returns("setSuggestedRebaseCommits",
                        ~CanAssemble(newCommits, changes'), -1, "", FALSE)
             /\ mode' = (IF CanAssemble(newCommits, changes')
                         THEN mode ELSE "IDLE")
     /\ rt' = NoRoundTrip
     /\ UNCHANGED <<nicePR, initializer, patch, pc, wide, branch, originalChangeReferences>>

SetSuggestedRebaseCommits ==
  /\ CanCall
  /\ ops = 0
  /\ \E k \in 1..(Len(NewNames) - made), shape \in SuggestionShapes :
        SetSuggestedRebaseCommitsWith(k, shape)

NextBuild == GitCommit \/ Construct

SpecBuild == InitBuild /\ [][NextBuild]_vars

Next ==
  \/ GitCommit
  \/ Construct
  \/ AddCommit
  \/ RemoveCommit
  \/ UpdateCommitMessage
  \/ MoveCommit
  \/ MoveChange
  \/ SetSuggestedRebaseCommits

Spec == Init /\ [][Next]_vars

(***************************************************************************)
(* NicePR.setRebaseMode (NicePR.ts, lines 1078-1263) for the modes that    *)
(* hold a store, and the commands of the extension that reach the store.   *)
(***************************************************************************)
\* a variant that finds no commit invalid
HasInvalidCommitNever(tree) == FALSE

\* rebasedCommits.find((commit) => commit.hasChangeSetBeforeDependent)
HasInvalidCommit(tree) ==
  \E c \in 1..Len(tree) : tree[c].hasChangeSetBeforeDependent

\* setRebaseMode("READY_TO_PUSH"), lines 1214-1236: refused with an error
\* message when a commit of rebaseCommits is flagged
ApproveRebase ==
  /\ pc = "store"
  /\ mode = "REBASING"
  /\ mode' = (IF HasInvalidCommit(rebaseCommits) THEN mode ELSE "READY_TO_PUSH")
  /\ UNCHANGED <<nicePR, initializer, patch, pc, wide, branch, store>>

\* setRebaseMode("REBASING") in mode READY_TO_PUSH, lines 1183-1189
EditRebase ==
  /\ pc = "store"
  /\ mode = "READY_TO_PUSH"
  /\ mode' = "REBASING"
  /\ UNCHANGED <<nicePR, initializer, patch, pc, wide, branch, store>>

\* utils.ts, getFileOperationChangeFromChanges: the first change of the file,
\* or for a first change MODIFY the last change of another type
RECURSIVE FileOperationChangeFrom(_, _)
FileOperationChangeFrom(fileOperationChange, entries) ==
  IF entries = <<>> THEN fileOperationChange
  ELSE FileOperationChangeFrom(
         IF /\ fileOperationChange.type = "MODIFY"
            /\ fileOperationChange.type # Head(entries).change.type
         THEN Head(entries).change ELSE fileOperationChange,
         Tail(entries))

getFileOperationChangeFromChanges(entries) ==
  FileOperationChangeFrom(entries[1].change, entries)

\* rebase(), lines 1563-1600: the operations of one file, without the content
\* they write
FileOperations(file) ==
  LET fileOperationChange == getFileOperationChangeFromChanges(file.changes)
      write == [type |-> "write", fileName |-> file.fileName, oldFileName |-> ""]
  IN CASE fileOperationChange.type \in {"ADD", "MODIFY"} -> <<write>>
       [] fileOperationChange.type = "RENAME" ->
            <<[type |-> "rename", fileName |-> file.fileName,
               oldFileName |-> fileOperationChange.oldFileName], write>>
       [] OTHER ->
            <<[type |-> "remove", fileName |-> file.fileName, oldFileName |-> ""]>>

RECURSIVE FlattenOperations(_)
FlattenOperations(lists) ==
  IF lists = <<>> THEN <<>> ELSE Head(lists) \o FlattenOperations(Tail(lists))

\* rebase(), lines 1518-1521: the commits of rebaser.rebaseCommits that have
\* files, reversed
CommitsToHandle(tree) ==
  Reverse(SelectSeq(tree, LAMBDA commit : Len(commit.files) > 0))

\* rebase(), lines 1525-1606: one operation pushed for every commit handled
CommitOperations(tree) ==
  [k \in 1..Len(CommitsToHandle(tree)) |->
     [message |-> CommitsToHandle(tree)[k].message,
      fileOperations |->
        FlattenOperations([f \in 1..Len(CommitsToHandle(tree)[k].files) |->
                             FileOperations(CommitsToHandle(tree)[k].files[f])])]]

\* Rebaser.getChangesForFile, lines 624-630
getChangesForFile(fileName) ==
  createFileChanges(commits,
                    SelectSeq(changes, LAMBDA change : change.path = fileName))

\* Rebaser.getChangesForFileByHash, lines 640-652
getChangesForFileByHash(fileName, hash) ==
  LET allHashes == Reverse(Hashes(commits))
      hashIndex == IndexOf(allHashes, hash)
      isIncluded(currentHash) ==
        /\ Includes(allHashes, currentHash)
        /\ IndexOf(allHashes, currentHash) <= hashIndex
  IN SelectSeq(getChangesForFile(fileName),
               LAMBDA change : isIncluded(change.hash))

\* NicePR._commits: the commits of the branch as git lists them, newest first
BranchCommitHashes ==
  Reverse([i \in 1..Len(branch.commits) |-> branch.commits[i].commit.hash])

\* generateDiffUris, lines 1463-1468: the changes applied to the original
\* content for the left side, and on top of them for the right side
ChangesBeforeHash(fileName, hash) ==
  SelectSeq(getChangesForFileByHash(fileName, hash),
            LAMBDA change : IndexOf(BranchCommitHashes, change.hash)
                              > IndexOf(BranchCommitHashes, hash))

ChangesInHash(fileName, hash) ==
  SelectSeq(getChangesForFileByHash(fileName, hash),
            LAMBDA change : change.hash = hash)

\* setRebaseMode("PUSHING"), lines 1237-1259: rebase() is started
RebaseAndPush ==
  /\ pc = "store"
  /\ mode = "READY_TO_PUSH"
  /\ mode' = "PUSHING"
  /\ UNCHANGED <<nicePR, initializer, patch, pc, wide, branch, store>>

\* getRebaser (lines 1030-1040) hands out the store in the modes REBASING and
\* READY_TO_PUSH.  Drops and the commands on a commit of the tree need an
\* item of the tree drawn in mode REBASING (part_002, lines 350-358, 456-476,
\* 809-842); the command nicePr.addCommit needs none (lines 843-857).
IsEditing == pc = "store" /\ mode = "REBASING"

HasRebaser == pc = "store" /\ mode \in {"REBASING", "READY_TO_PUSH"}

NextPush ==
  \/ GitCommit
  \/ Construct
  \/ (IsEditing /\ SetSuggestedRebaseCommits)
  \/ (HasRebaser /\ AddCommit)
  \/ (IsEditing /\ RemoveCommit)
  \/ (IsEditing /\ UpdateCommitMessage)
  \/ (IsEditing /\ MoveCommit)
  \/ (IsEditing /\ MoveChange)
  \/ ApproveRebase
  \/ EditRebase
  \/ RebaseAndPush

SpecPush == Init /\ [][NextPush]_vars

(***************************************************************************)
(* applyChanges(document, changes) as the previews and rebase() call it    *)
(* (NicePR.ts, lines 1413-1486 and 1557-1566): with the content of a file, *)
(* "" for a file that does not exist yet, and the changes of one file of   *)
(* one commit.  The file has up to BaseLen lines and ends with a newline   *)
(* or not; the changes are the hunks of one diff of the file.              *)
(***************************************************************************)
ApplyDocuments == {[i \in 1..n |-> i] : n \in 0..BaseLen}

\* the content of the file as split("\n") gives it
FileText(doc, eofNewline) ==
  IF eofNewline \/ doc = <<>> THEN doc \o <<EmptyLine>> ELSE doc

HunkChanges(doc, edits) ==
  [h \in 1..Len(edits) |->
     mapChunkToFileChange(GitChunk(doc, edits, h, 1, 1), "c1", "a", h - 1, <<>>)]

\* the lines of a change written by hand as tests/Rebaser.test.ts (lines
\* 76-102) writes them: the first inserted line right after the first deleted
Interleaved(change) ==
  LET minus == SelectSeq(change.lines, LAMBDA l : l[1] = "-")
      plus == SelectSeq(change.lines, LAMBDA l : l[1] = "+")
  IN IF minus = <<>> \/ plus = <<>> THEN change
     ELSE [change EXCEPT !.lines = <<minus[1], plus[1]>> \o Tail(minus)
                                      \o Tail(plus)]

OpenDocument ==
  /\ patch.stage = "none"
  /\ \E doc \in ApplyDocuments, eofNewline \in BOOLEAN, byHand \in BOOLEAN :
        \E edits \in EditLists(doc, TRUE, 2) :
           patch' = [NoPatch EXCEPT
                       !.stage = "open",
                       !.document = FileText(doc, eofNewline),
                       !.changes =
                          [h \in 1..Len(edits) |->
                             IF byHand THEN Interleaved(HunkChanges(doc, edits)[h])
                             ELSE HunkChanges(doc, edits)[h]]]
  /\ UNCHANGED <<nicePR, initializer, pc, wide, branch, store, mode>>

ApplyChanges ==
  /\ patch.stage = "open"
  /\ LET returned == applyChanges(patch.document, patch.changes)
     IN patch' = [patch EXCEPT !.stage = "applied",
                               !.threw = returned.threw,
                               !.result = returned.text]
  /\ UNCHANGED <<nicePR, initializer, pc, wide, branch, store, mode>>

NextApply == OpenDocument \/ ApplyChanges

SpecApply == Init /\ [][NextApply]_vars

(***************************************************************************)
(* NicePR.setRebaseMode as the commands of the extension call it           *)
(* (part_002, lines 736-808): never awaited, so a call that is suspended   *)
(* at an await runs interleaved with later calls and with the editor.      *)
(* The mode assigned is one of IDLE, REBASING and READY_TO_PUSH: no        *)
(* statement of the class assigns SUGGESTING or PUSHING.  The task handed  *)
(* to vscode.window.withProgress is taken to start within the call.        *)
(***************************************************************************)
MaxRequests == 4

MaxRebasers == 2

MaxEdits == 1

\* the commits rebase() creates: the commits of the tree that have files
CommitsToCreate == 2

rest == <<pc, wide, branch, store, mode, patch>>

Ended == {"returned", "threw", "ignored"}

IsPending(request) == request.at \notin Ended

CanRequest == Len(nicePR.requests) <= MaxRequests

\* "READY_TO_PUSH", lines 1215-1217
CanApprove(currentMode) == currentMode = "REBASING"

\* a variant that lets a rebase be pushed without approval
CanPushUnapproved(currentMode) == currentMode \in {"REBASING", "READY_TO_PUSH"}

\* "PUSHING", lines 1238-1240
CanPush(currentMode) == currentMode = "READY_TO_PUSH"

\* lines 1079-1081: the call returns at once when the mode is SUGGESTING
Entered(requested, at, parent) ==
  Request(requested,
          IF nicePR.mode = "SUGGESTING" THEN "ignored" ELSE at,
          nicePR.mode, nicePR.rebaser, parent)

\* setRebaseMode("IDLE") up to the await of checkBackupBranch, lines 1084-1090
RequestIdle ==
  /\ CanRequest
  /\ nicePR' = [nicePR EXCEPT
                  !.requests = Append(@, Entered("IDLE", "checkBackupBranch", 0))]
  /\ UNCHANGED <<rest, initializer>>

\* checkBackupBranch resolves (it never rejects, lines 1013-1015) and the
\* mode is assigned
BackupBranchChecked ==
  /\ \E i \in 1..Len(nicePR.requests) :
        /\ nicePR.requests[i].at = "checkBackupBranch"
        /\ nicePR' = [nicePR EXCEPT !.mode = "IDLE", !.rebaser = 0,
                                    !.requests[i].at = "returned"]
  /\ UNCHANGED <<rest, initializer>>

\* setRebaseMode("SUGGESTING") and setRebaseMode("REBASING") up to the await
\* of checkNeedsRebaseFromTarget, lines 1091-1092 and 1167-1177
RequestSuggesting ==
  /\ CanRequest
  /\ nicePR' = [nicePR EXCEPT
                  !.requests = Append(@, Entered("SUGGESTING",
                                                 "checkNeedsRebase", 0))]
  /\ UNCHANGED <<rest, initializer>>

RequestRebasing ==
  /\ CanRequest
  /\ nicePR' = [nicePR EXCEPT
                  !.requests = Append(@, Entered("REBASING",
                                                 "checkNeedsRebase", 0))]
  /\ UNCHANGED <<rest, initializer>>

\* checkNeedsRebaseFromTarget resolves: lines 1094-1096 and 1179-1189.  The
\* mode is read after the await.
NeedsRebaseChecked ==
  /\ \E i \in 1..Len(nicePR.requests), needsRebaseFromTarget \in BOOLEAN :
        /\ nicePR.requests[i].at = "checkNeedsRebase"
        /\ nicePR' =
             IF needsRebaseFromTarget
             THEN [nicePR EXCEPT !.requests[i].at = "returned"]
             ELSE IF /\ nicePR.requests[i].requested = "REBASING"
                     /\ nicePR.mode = "READY_TO_PUSH"
             THEN [nicePR EXCEPT !.mode = "REBASING",
                                 !.requests[i].at = "returned",
                                 !.requests[i].rebaser = nicePR.rebaser]
             ELSE [nicePR EXCEPT !.requests[i].at = "diffs"]
  /\ UNCHANGED <<rest, initializer>>

\* the diffs of the commits resolve and a Rebaser is constructed: lines
\* 1106-1121 (SUGGESTING, which goes on to ask for the suggestion) and
\* 1191-1209 (REBASING, which assigns the mode)
DiffsRead ==
  /\ nicePR.built < MaxRebasers
  /\ \E i \in 1..Len(nicePR.requests) :
        /\ nicePR.requests[i].at = "diffs"
        /\ nicePR' =
             IF nicePR.requests[i].requested = "REBASING"
             THEN [nicePR EXCEPT !.built = @ + 1,
                                 !.rebasers = Append(@, NoRebaser),
                                 !.mode = "REBASING",
                                 !.rebaser = nicePR.built + 1,
                                 !.requests[i].at = "returned",
                                 !.requests[i].fresh = TRUE,
                                 !.requests[i].rebaser = nicePR.built + 1]
             ELSE [nicePR EXCEPT !.built = @ + 1,
                                 !.rebasers = Append(@, NoRebaser),
                                 !.requests[i].at = "suggestion",
                                 !.requests[i].fresh = TRUE,
                                 !.requests[i].rebaser = nicePR.built + 1]
  /\ UNCHANGED <<rest, initializer>>

\* the suggestion service answers, lines 1128-1161: the request, the parse
\* of the answer or setSuggestedRebaseCommits throws, or the Rebaser with the
\* suggested commits (flagged or not) becomes the Rebaser of mode REBASING
SuggestionReceived ==
  /\ \E i \in 1..Len(nicePR.requests), threw \in BOOLEAN, flagged \in BOOLEAN :
        /\ nicePR.requests[i].at = "suggestion"
        /\ nicePR' =
             IF threw
             THEN [nicePR EXCEPT !.requests[i].at = "threw"]
             ELSE [nicePR EXCEPT
                     !.mode = "REBASING",
                     !.rebaser = nicePR.requests[i].rebaser,
                     !.rebasers[nicePR.requests[i].rebaser].flagged = flagged,
                     !.requests[i].at = "returned"]
  /\ UNCHANGED <<rest, initializer>>

\* setRebaseMode("READY_TO_PUSH"), lines 1214-1236: no await
RequestReadyToPush ==
  /\ CanRequest
  /\ nicePR' =
       IF nicePR.mode = "SUGGESTING"
       THEN [nicePR EXCEPT
               !.requests = Append(@, Entered("READY_TO_PUSH", "ignored", 0))]
       ELSE IF ~CanApprove(nicePR.mode)
       THEN [nicePR EXCEPT
               !.requests = Append(@, Entered("READY_TO_PUSH", "threw", 0))]
       ELSE IF nicePR.rebasers[nicePR.rebaser].flagged
       THEN [nicePR EXCEPT
               !.requests = Append(@, Entered("READY_TO_PUSH", "returned", 0))]
       ELSE [nicePR EXCEPT
               !.mode = "READY_TO_PUSH",
               !.rebasers[nicePR.rebaser].approved = TRUE,
               !.requests = Append(@, Entered("READY_TO_PUSH", "returned", 0))]
  /\ UNCHANGED <<rest, initializer>>

\* setRebaseMode("PUSHING"), lines 1237-1249, and rebase() up to its first
\* await, lines 1516-1522: the Rebaser of the mode is read
RequestPushing ==
  /\ CanRequest
  /\ nicePR' =
       IF nicePR.mode = "SUGGESTING"
       THEN [nicePR EXCEPT
               !.requests = Append(@, Entered("PUSHING", "ignored", 0))]
       ELSE IF ~CanPush(nicePR.mode)
       THEN [nicePR EXCEPT
               !.requests = Append(@, Entered("PUSHING", "threw", 0))]
       ELSE [nicePR EXCEPT
               !.requests =
                  Append(@, [Entered("PUSHING", "operations", 0)
                               EXCEPT !.rebaser = nicePR.rebaser])]
  /\ UNCHANGED <<rest, initializer>>

GitEvent(event, commit) == [event |-> event, commit |-> commit]

\* a variant of rebase() that resets the branch before it saves it
RebaseResettingFirst(request) ==
  CASE request.at = "operations" ->
         [request EXCEPT !.at = "reset",
                         !.log = Append(@, GitEvent("operations", 0))]
    [] request.at = "reset" ->
         [request EXCEPT !.at = "backup",
                         !.log = Append(@, GitEvent("reset", 0))]
    [] request.at = "backup" ->
         [request EXCEPT !.at = "files", !.commit = 1,
                         !.log = Append(@, GitEvent("backup", 0))]
    [] request.at = "files" ->
         [request EXCEPT !.at = "commit",
                         !.log = Append(@, GitEvent("files", request.commit))]
    [] OTHER ->
         [request EXCEPT
            !.at = IF request.commit < CommitsToCreate THEN "files" ELSE "push",
            !.commit = IF request.commit < CommitsToCreate THEN @ + 1 ELSE @,
            !.log = Append(@, GitEvent("commit", request.commit))]

\* rebase() from one await to the next, lines 1523-1668: the commit
\* operations are computed (1523-1606), the backup branch is set (1613), the
\* branch is reset to the merge base (1615-1618), and for every commit
\* operation its files are written, renamed or removed (1631-1660) and the
\* commit is made (1662-1666)
Rebase(request) ==
  CASE request.at = "operations" ->
         [request EXCEPT !.at = "backup",
                         !.log = Append(@, GitEvent("operations", 0))]
    [] request.at = "backup" ->
         [request EXCEPT !.at = "reset",
                         !.log = Append(@, GitEvent("backup", 0))]
    [] request.at = "reset" ->
         [request EXCEPT !.at = "files", !.commit = 1,
                         !.log = Append(@, GitEvent("reset", 0))]
    [] request.at = "files" ->
         [request EXCEPT !.at = "commit",
                         !.log = Append(@, GitEvent("files", request.commit))]
    [] OTHER ->
         [request EXCEPT
            !.at = IF request.commit < CommitsToCreate THEN "files" ELSE "push",
            !.commit = IF request.commit < CommitsToCreate THEN @ + 1 ELSE @,
            !.log = Append(@, GitEvent("commit", request.commit))]

RebaseStep ==
  /\ \E i \in 1..Len(nicePR.requests) :
        /\ nicePR.requests[i].at
             \in {"operations", "backup", "reset", "files", "commit"}
        /\ nicePR' = [nicePR EXCEPT !.requests[i] = Rebase(@)]
  /\ UNCHANGED <<rest, initializer>>

\* the force push, lines 1250-1254: when it resolves setRebaseMode("IDLE") is
\* called; when it rejects the call of PUSHING ends with the error
Pushed ==
  /\ \E i \in 1..Len(nicePR.requests), rejected \in BOOLEAN :
        /\ nicePR.requests[i].at = "push"
        /\ nicePR' =
             IF rejected
             THEN [nicePR EXCEPT !.requests[i].at = "threw"]
             ELSE [nicePR EXCEPT
                     !.requests =
                        Append([@ EXCEPT
                                  ![i].at = "returned",
                                  ![i].log = Append(@, GitEvent("push", 0))],
                               Entered("IDLE", "checkBackupBranch", i))]
  /\ UNCHANGED <<rest, initializer>>

\* the editor changes the Rebaser it gets from getRebaser (lines 1030-1040):
\* a drop or a command on an item of the tree drawn in mode REBASING
\* (part_002, lines 332-425, 809-842), which may flag a commit or clear a flag
EditRebaser ==
  /\ nicePR.mode = "REBASING"
  /\ nicePR.rebasers[nicePR.rebaser].edits < MaxEdits
  /\ \E flagged \in BOOLEAN :
        nicePR' = [nicePR EXCEPT
                     !.rebasers[nicePR.rebaser].edits = @ + 1,
                     !.rebasers[nicePR.rebaser].flagged = flagged]
  /\ UNCHANGED <<rest, initializer>>

\* addNewCommit, lines 1264-1270, which the command nicePr.addCommit reaches
\* in mode READY_TO_PUSH too (part_002, lines 843-857)
AddNewCommit ==
  /\ nicePR.mode \in {"REBASING", "READY_TO_PUSH"}
  /\ nicePR.rebasers[nicePR.rebaser].edits < MaxEdits
  /\ nicePR' = [nicePR EXCEPT !.rebasers[nicePR.rebaser].edits = @ + 1]
  /\ UNCHANGED <<rest, initializer>>

NextMode ==
  \/ RequestIdle
  \/ BackupBranchChecked
  \/ RequestSuggesting
  \/ RequestRebasing
  \/ NeedsRebaseChecked
  \/ DiffsRead
  \/ SuggestionReceived
  \/ RequestReadyToPush
  \/ RequestPushing
  \/ RebaseStep
  \/ Pushed
  \/ EditRebaser
  \/ AddNewCommit

SpecMode == Init /\ [][NextMode]_vars

(***************************************************************************)
(* Initializer (part_002, lines 573-705).  initializeRepo is never         *)
(* awaited: a run suspended at the query of the branch's commits runs      *)
(* interleaved with later runs and with the closing of the repository.     *)
(***************************************************************************)
MaxRuns == 3

others == <<rest, nicePR>>

CurrentState == initializer.objects[Len(initializer.objects)]

HasDispose(object) == object.state \in {"INITIALIZING", "INITIALIZED"}

\* the dispose of a state INITIALIZING aborts the AbortController of its run
\* (lines 651-653)
AbortedBy(object, runs) ==
  IF object.state = "INITIALIZING"
  THEN [runs EXCEPT ![object.run].aborted = TRUE]
  ELSE runs

\* set state, lines 580-586: the dispose of the state replaced is called,
\* then the new state is assigned
Assigned(object, runs) ==
  LET n == Len(initializer.objects)
  IN IF HasDispose(CurrentState)
     THEN [objects |-> Append([initializer.objects EXCEPT ![n].disposed = @ + 1],
                              object),
           runs |-> AbortedBy(CurrentState, runs)]
     ELSE [objects |-> Append(initializer.objects, object), runs |-> runs]

\* initializeRepo up to its await, lines 631-660: called when a repository
\* is opened (621-623, 628-632) and when the branch of the repository
\* changes while the state is INITIALIZING or INITIALIZED (636-648).  A run
\* that finds no branch returns.
InitializeRepo ==
  /\ Len(initializer.runs) < MaxRuns
  /\ \E hasBranch \in BOOLEAN :
        LET run == Len(initializer.runs) + 1
            started == Append(initializer.runs,
                              [at |-> IF hasBranch THEN "getBranchCommits"
                                      ELSE "returned",
                               aborted |-> FALSE])
        IN initializer' = Assigned(StateObject("INITIALIZING", run, FALSE),
                                   started)
  /\ UNCHANGED others

\* onDidCloseRepository, lines 624-632
CloseRepository ==
  /\ CurrentState.state \in {"INITIALIZED", "INITIALIZING"}
  /\ initializer' = Assigned(StateObject("IDLE", 0, FALSE), initializer.runs)
  /\ UNCHANGED others

\* getBranchCommits resolves, lines 662-693: an aborted run returns, another
\* constructs NicePR and assigns the state INITIALIZED
CommitsResolved ==
  /\ \E run \in 1..Len(initializer.runs) :
        /\ initializer.runs[run].at = "getBranchCommits"
        /\ initializer' =
             IF initializer.runs[run].aborted
             THEN [initializer EXCEPT !.runs[run].at = "returned"]
             ELSE Assigned(StateObject("INITIALIZED", run, FALSE),
                           [initializer.runs EXCEPT ![run].at = "returned"])
  /\ UNCHANGED others

\* getBranchCommits rejects, lines 694-702: the catch assigns the state ERROR
CommitsRejected ==
  /\ \E run \in 1..Len(initializer.runs) :
        /\ initializer.runs[run].at = "getBranchCommits"
        /\ initializer' =
             Assigned(StateObject("ERROR", run, initializer.runs[run].aborted),
                      [initializer.runs EXCEPT ![run].at = "returned"])
  /\ UNCHANGED others

NextInitializer ==
  \/ InitializeRepo
  \/ CloseRepository
  \/ CommitsResolved
  \/ CommitsRejected

SpecInitializer == Init /\ [][NextInitializer]_vars

(***************************************************************************)
(* Reading the outputs: where a change stands in the tree and in trash.    *)
(***************************************************************************)
\* <<commit, file, entry>> positions of the tree
TreePlaces(tree) ==
  UNION {UNION {{<<c, f, e>> : e \in 1..Len(tree[c].files[f].changes)} :
                  f \in 1..Len(tree[c].files)} :
         c \in 1..Len(tree)}

TreeChange(tree, place) ==
  tree[place[1]].files[place[2]].changes[place[3]]

PlacesOf(tree, index) ==
  {place \in TreePlaces(tree) : TreeChange(tree, place).change.index = index}

\* <<file, entry>> positions of the trash
TrashPlaces(trash) ==
  UNION {{<<f, e>> : e \in 1..Len(trash[f].changes)} : f \in 1..Len(trash)}

TrashPlacesOf(trash, index) ==
  {place \in TrashPlaces(trash) :
     trash[place[1]].changes[place[2]].change.index = index}

ChangeOfIndex(index) == changes[PositionOfIndex(changes, index)]

\* a change without its owner
Unowned(change) == [change EXCEPT !.hash = ""]

(***************************************************************************)
(* C1.  In every state reachable by store operations, including those      *)
(* that end by throwing, every change's hash is the hash of a commit of    *)
(* the commit list or "trash".                                             *)
(***************************************************************************)
C1_EveryHashIsACommitOrTrash ==
  pc = "store" =>
    \A i \in 1..Len(changes) :
       changes[i].hash = "trash" \/ Includes(Hashes(commits), changes[i].hash)

(***************************************************************************)
(* C2.  After every store mutation that returns, the rebaseCommits a       *)
(* caller reads is the tree assembled from the current commits and         *)
(* changes.                                                                *)
(***************************************************************************)
C2_TreeIsCurrentAfterEveryMutation ==
  (pc = "store" /\ last.op # "none" /\ ~last.threw) => Fresh

(***************************************************************************)
(* C3, C4.  Both are about the document applyChanges (lines 653-687)       *)
(* returns, which is computed by applyPatch of the npm package "diff"; the *)
(* package is not part of the repository, so the model has no definition   *)
(* of the document a patch produces and states neither claim.              *)
(***************************************************************************)

(***************************************************************************)
(* C5.  For a freshly constructed store, the position createFileChanges    *)
(* reports for every MODIFY(text) change is the position the change had in *)
(* the original diff.                                                      *)
(***************************************************************************)
OriginalChanges == getFileChangesOfCommits(branch.commits)

ReportedChanges == createFileChanges(commits, changes)

C5_ReconstructionInvertsNormalization ==
  (pc = "store" /\ last.op = "none") =>
    \A i \in 1..Len(changes) :
       isTextFileChange(changes[i]) =>
         /\ ReportedChanges[i].oldStart = OriginalChanges[i].oldStart
         /\ ReportedChanges[i].newStart = OriginalChanges[i].newStart

(***************************************************************************)
(* C6.  After moveChange has put a change into a commit that is older than *)
(* the commit owning one of its dependencies (that dependency not being in *)
(* trash), the change has isSetBeforeDependent in rebaseCommits, and its   *)
(* file entry and its commit entry have hasChangeSetBeforeDependent.       *)
(***************************************************************************)
\* the commit list is newest first: the older commit has the greater position
IsOlderCommit(hash, thanHash) ==
  /\ CommitPosition(commits, hash) # 0
  /\ CommitPosition(commits, thanHash) # 0
  /\ CommitPosition(commits, hash) > CommitPosition(commits, thanHash)

IsBeforeADependency(change) ==
  \E d \in 1..Len(change.dependencies) :
     LET dependency == ChangeOfIndex(change.dependencies[d])
     IN dependency.hash # "trash" /\ IsOlderCommit(change.hash, dependency.hash)

MovedBeforeADependency ==
  /\ pc = "store"
  /\ last.op = "moveChange"
  /\ ~last.threw
  /\ IsBeforeADependency(ChangeOfIndex(last.index))

IsFlaggedAt(tree, place) ==
  /\ TreeChange(tree, place).isSetBeforeDependent
  /\ tree[place[1]].files[place[2]].hasChangeSetBeforeDependent
  /\ tree[place[1]].hasChangeSetBeforeDependent

C6_MoveBeforeDependencyIsFlagged ==
  MovedBeforeADependency =>
    /\ PlacesOf(rebaseCommits, last.index) # {}
    /\ \A place \in PlacesOf(rebaseCommits, last.index) :
          IsFlaggedAt(rebaseCommits, place)

C6_Witness ==
  /\ MovedBeforeADependency
  /\ \E place \in PlacesOf(rebaseCommits, last.index) :
        /\ IsFlaggedAt(rebaseCommits, place)
        /\ rebaseCommits[place[1]].hash = ChangeOfIndex(last.index).hash
        /\ ChangeOfIndex(last.index).hash # ChangeOfIndex(last.index).originalHash

(***************************************************************************)
(* C7.  A change is never flagged isSetBeforeDependent in a state where    *)
(* each of its dependencies is in trash or owned by a commit that is the   *)
(* same as or older than the change's own commit.  (Stated for the states  *)
(* whose tree is up to date.)                                              *)
(***************************************************************************)
EveryDependencyIsAtOrBefore(change) ==
  \A d \in 1..Len(change.dependencies) :
     LET dependency == ChangeOfIndex(change.dependencies[d])
     IN \/ dependency.hash = "trash"
        \/ dependency.hash = change.hash
        \/ IsOlderCommit(dependency.hash, change.hash)

C7_NoFlagWhenDependenciesAreAtOrBefore ==
  (pc = "store" /\ Fresh) =>
    \A place \in TreePlaces(rebaseCommits) :
       EveryDependencyIsAtOrBefore(
           ChangeOfIndex(TreeChange(rebaseCommits, place).change.index))
         => ~TreeChange(rebaseCommits, place).isSetBeforeDependent

(***************************************************************************)
(* C8.  No store operation creates or deletes a change, and every field of *)
(* every stored change other than hash is what it was right after          *)
(* construction.                                                           *)
(***************************************************************************)
C8_OnlyTheHashOfAChangeChanges ==
  pc = "store" =>
    /\ Len(changes) = Len(ConstructedChanges(branch.commits))
    /\ \A i \in 1..Len(ConstructedChanges(branch.commits)) :
          LET made0 == ConstructedChanges(branch.commits)[i]
          IN Cardinality({k \in 1..Len(changes) :
                            Unowned(changes[k]) = Unowned(made0)}) = 1

C8_Witness ==
  /\ pc = "store"
  /\ last.op = "moveCommit"
  /\ ~last.threw
  /\ \E i \in 1..Len(changes) :
        changes[i].hash = "trash" /\ changes[i].originalHash # "trash"
  /\ \E i \in 1..Len(changes) :
        changes[i].hash \notin {"trash", changes[i].originalHash}
  /\ Indexes(changes) # Indexes(ConstructedChanges(branch.commits))

(***************************************************************************)
(* C9.  A change moved to trash and then from trash back to commit h is    *)
(* owned by h with its position and line data as before, and if h is its   *)
(* original commit (the one it was taken from), the rebaseCommits entry    *)
(* for that commit and file equals the one before the two moves.           *)
(***************************************************************************)
SamePositionAndLines(change, before) ==
  /\ change.oldStart = before.oldStart
  /\ change.oldLines = before.oldLines
  /\ change.newStart = before.newStart
  /\ change.newLines = before.newLines
  /\ change.lines = before.lines

C9_RestoredOwnedAndUnchanged ==
  rt.stage = "restored" =>
    /\ ChangeOfIndex(rt.index).hash = rt.target
    /\ SamePositionAndLines(ChangeOfIndex(rt.index), rt.before[1])

C9_TrashRoundTrip ==
  rt.stage = "restored" =>
    /\ ChangeOfIndex(rt.index).hash = rt.target
    /\ SamePositionAndLines(ChangeOfIndex(rt.index), rt.before[1])
    /\ (rt.target = rt.hash /\ rt.hash = rt.before[1].originalHash) =>
          TreeEntry(rebaseCommits, rt.target, rt.before[1].path) = rt.entry

(***************************************************************************)
(* C10.  Each change appears exactly once in the outputs: a change in      *)
(* trash in getTrash() under its path and nowhere in rebaseCommits, every  *)
(* other change exactly once in rebaseCommits, under the commit of its     *)
(* hash and the file of its path.                                          *)
(***************************************************************************)
AppearsOnceInTrash(change) ==
  /\ PlacesOf(rebaseCommits, change.index) = {}
  /\ Cardinality(TrashPlacesOf(getTrash(changes), change.index)) = 1
  /\ \A place \in TrashPlacesOf(getTrash(changes), change.index) :
        getTrash(changes)[place[1]].fileName = change.path

AppearsOnceInTree(change) ==
  /\ TrashPlacesOf(getTrash(changes), change.index) = {}
  /\ Cardinality(PlacesOf(rebaseCommits, change.index)) = 1
  /\ \A place \in PlacesOf(rebaseCommits, change.index) :
        /\ rebaseCommits[place[1]].hash = change.hash
        /\ rebaseCommits[place[1]].files[place[2]].fileName = change.path

C10_EveryChangeAppearsOnce ==
  pc = "store" =>
    \A i \in 1..Len(changes) :
       IF changes[i].hash = "trash"
       THEN AppearsOnceInTrash(changes[i])
       ELSE AppearsOnceInTree(changes[i])

\* the same for the states whose tree is up to date
C10_WhenFresh ==
  (pc = "store" /\ Fresh) =>
    \A i \in 1..Len(changes) :
       IF changes[i].hash = "trash"
       THEN AppearsOnceInTrash(changes[i])
       ELSE AppearsOnceInTree(changes[i])

(***************************************************************************)
(* C11.  A change in trash contributes nothing to the reconstructed        *)
(* position of any other change: the position createFileChanges gives a    *)
(* MODIFY(text) change that is not in trash is the position it gives the   *)
(* change in a store from which the changes in trash are removed.          *)
(***************************************************************************)
NotInTrash(list) == SelectSeq(list, LAMBDA change : change.hash # "trash")

PositionWithTrash(index) ==
  createFileChanges(commits, changes)[PositionOfIndex(changes, index)]

PositionWithoutTrash(index) ==
  createFileChanges(commits, NotInTrash(changes))[
    PositionOfIndex(NotInTrash(changes), index)]

C11_TrashContributesNothing ==
  (pc = "store" /\ CanAssemble(commits, changes)) =>
    \A i \in 1..Len(changes) :
       (isTextFileChange(changes[i]) /\ changes[i].hash # "trash") =>
         /\ PositionWithTrash(changes[i].index).oldStart
              = PositionWithoutTrash(changes[i].index).oldStart
         /\ PositionWithTrash(changes[i].index).newStart
              = PositionWithoutTrash(changes[i].index).newStart

(***************************************************************************)
(* C12.  A store mutation that references something absent throws:         *)
(* moveChange called with a change index the given path does not have or   *)
(* with a target hash that is neither a commit nor "trash", moveCommit     *)
(* called with an unknown commit hash or an unknown afterRef, removeCommit  *)
(* and updateCommitMessage called with an unknown commit hash.             *)
(***************************************************************************)
ReferencedSomethingAbsent ==
  /\ pc = "store"
  /\ last.op \in {"moveChange", "moveCommit", "removeCommit",
                  "updateCommitMessage"}
  /\ last.absent

C12_AbsentReferenceThrows == ReferencedSomethingAbsent => last.threw

\* moveChange found the change and was given a target that names no commit
C12_Witness ==
  /\ ReferencedSomethingAbsent
  /\ last.op = "moveChange"
  /\ last.index # GhostIndex
  /\ last.threw
  /\ \E i \in 1..Len(changes) :
        changes[i].index = last.index /\ changes[i].hash = "ghost"

(***************************************************************************)
(* C13.  removeCommit(hash) throws and leaves the commit list as it was    *)
(* when a change has that hash; when no change has it, the commit with     *)
(* that hash is removed and the other commits keep their order.  A change  *)
(* in trash whose originalHash is the commit does not block the removal.   *)
(***************************************************************************)
OwnsAChange(list, hash) == \E i \in 1..Len(list) : list[i].hash = hash

WithoutCommit(list, hash) == SelectSeq(list, LAMBDA commit : commit.hash # hash)

RemoveCommitOutcome(hash, threw, commitsBefore, commitsAfter) ==
  IF OwnsAChange(changes, hash) \/ ~Includes(Hashes(commitsBefore), hash)
  THEN threw /\ commitsAfter = commitsBefore
  ELSE /\ commitsAfter = WithoutCommit(commitsBefore, hash)
       /\ Len(commitsAfter) = Len(commitsBefore) - 1

C13_RemoveCommitOnlyWhenEmpty ==
  [][(last'.op = "removeCommit" /\ ops' = ops + 1) =>
       RemoveCommitOutcome(last'.hash, last'.threw, commits, commits')]_vars

\* a commit was removed while a change taken from it lies in trash
C13_Witness ==
  /\ pc = "store"
  /\ last.op = "removeCommit"
  /\ ~last.threw
  /\ ~Includes(Hashes(commits), last.hash)
  /\ Len(commits) >= 2
  /\ \E i \in 1..Len(changes) :
        changes[i].hash = "trash" /\ changes[i].originalHash = last.hash

(***************************************************************************)
(* C15.  After every mutation the MODIFY(text) changes that share path and *)
(* owning hash stand in increasing creation index, in the store and in the *)
(* file entry of rebaseCommits, whatever their positions are.              *)
(***************************************************************************)
Mutated == pc = "store" /\ last.op # "none" /\ ~last.threw

IsTextPair(a, b) ==
  /\ isTextFileChange(a) /\ isTextFileChange(b)
  /\ a.path = b.path /\ a.hash = b.hash

TextChangesInIndexOrder(list) ==
  \A i, j \in 1..Len(list) :
     (i < j /\ IsTextPair(list[i], list[j])) => list[i].index < list[j].index

EntryChanges(file) == [e \in 1..Len(file.changes) |-> file.changes[e].change]

C15_TextChangesInCreationOrder ==
  Mutated =>
    /\ TextChangesInIndexOrder(NotInTrash(changes))
    /\ \A c \in 1..Len(rebaseCommits) :
          \A f \in 1..Len(rebaseCommits[c].files) :
             TextChangesInIndexOrder(EntryChanges(rebaseCommits[c].files[f]))

(***************************************************************************)
(* C16.  After every mutation, within each group of changes that share     *)
(* path and owning hash, every change that is not a MODIFY (ADD, DELETE,   *)
(* RENAME) precedes every MODIFY change.                                   *)
(***************************************************************************)
FileOperationsFirst(list) ==
  \A i, j \in 1..Len(list) :
     (/\ i < j
      /\ list[i].path = list[j].path /\ list[i].hash = list[j].hash
      /\ list[i].type = "MODIFY") => list[j].type = "MODIFY"

C16_FileOperationsPrecedeModifications ==
  Mutated =>
    /\ FileOperationsFirst(NotInTrash(changes))
    /\ \A c \in 1..Len(rebaseCommits) :
          \A f \in 1..Len(rebaseCommits[c].files) :
             FileOperationsFirst(EntryChanges(rebaseCommits[c].files[f]))

(***************************************************************************)
(* C17.  For every commit and file in rebaseCommits, hasChanges is true    *)
(* exactly when the set of change indexes the commit now owns for the file *)
(* differs from the set it owned at construction, in whatever order the    *)
(* changes are listed.  (Stated for the states whose tree is up to date.)  *)
(***************************************************************************)
OwnedIndexes(hash, path) ==
  {changes[i].index : i \in {k \in 1..Len(changes) :
                               changes[k].hash = hash /\ changes[k].path = path}}

OriginalIndexes(hash, path) ==
  IF <<hash, path>> \in DOMAIN originalChangeReferences
  THEN {originalChangeReferences[<<hash, path>>][i] :
          i \in 1..Len(originalChangeReferences[<<hash, path>>])}
  ELSE {}

HasChangesIsSetDifference(tree) ==
  \A c \in 1..Len(tree) :
     \A f \in 1..Len(tree[c].files) :
        tree[c].files[f].hasChanges
          <=> (OwnedIndexes(tree[c].hash, tree[c].files[f].fileName)
                 # OriginalIndexes(tree[c].hash, tree[c].files[f].fileName))

C17_HasChangesIffSetDiffers ==
  (pc = "store" /\ Fresh) => HasChangesIsSetDifference(rebaseCommits)

(***************************************************************************)
(* C18.  Dependency integrity of the changes built from any input: every   *)
(* index in the dependencies of a change is the index of an existing       *)
(* change and is smaller than the change's own index; indexes are pairwise *)
(* distinct and increase in creation order.                                *)
(***************************************************************************)
DependenciesWereCreatedBefore(list) ==
  \A i \in 1..Len(list) :
     \A d \in 1..Len(list[i].dependencies) :
        /\ Includes(Indexes(list), list[i].dependencies[d])
        /\ list[i].dependencies[d] < list[i].index

IndexesIncrease(list) ==
  \A i, j \in 1..Len(list) : i < j => list[i].index < list[j].index

C18_DependencyIntegrity ==
  (pc = "store" /\ last.op = "none") =>
    /\ DependenciesWereCreatedBefore(OriginalChanges)
    /\ IndexesIncrease(OriginalChanges)
    /\ Indexes(changes) = Indexes(OriginalChanges)
    /\ DependenciesWereCreatedBefore(changes)

\* a change with two dependencies, and a file entry that gave two changes
C18_Witness ==
  /\ pc = "store"
  /\ last.op = "none"
  /\ Len(commits) >= 2
  /\ \E i \in 1..Len(changes) : Len(changes[i].dependencies) >= 2
  /\ \E i \in 1..Len(changes) :
        /\ i < Len(changes)
        /\ isTextFileChange(changes[i]) /\ isTextFileChange(changes[i + 1])
        /\ changes[i].hash = changes[i + 1].hash
        /\ changes[i].path = changes[i + 1].path

(***************************************************************************)
(* C19.  When the constructor is given the commits newest first, as its    *)
(* doc comment asks, the changes are built oldest commit first (every      *)
(* change of an older commit has a smaller index than every change of a    *)
(* newer commit) and the commit list it keeps is newest first.             *)
(***************************************************************************)
\* the hashes of the branch, oldest first
BranchHashes == [i \in 1..Len(branch.commits) |-> branch.commits[i].commit.hash]

NewestFirstInput == Reverse(branch.commits)

IsOlderInBranch(hash, thanHash) ==
  IndexOf(BranchHashes, hash) < IndexOf(BranchHashes, thanHash)

BuiltOldestFirst(list) ==
  \A i, j \in 1..Len(list) :
     IsOlderInBranch(list[i].hash, list[j].hash) => list[i].index < list[j].index

C19_NewestFirstInputIsBuiltOldestFirst ==
  pc = "store" =>
    /\ BuiltOldestFirst(getFileChangesOfCommits(NewestFirstInput))
    /\ Hashes(ConstructedCommits(NewestFirstInput)) = Reverse(BranchHashes)

(***************************************************************************)
(* C20.  Change building is 1:1 and complete: every file entry of every    *)
(* commit's diff contributes one ADD / DELETE / RENAME change when it adds *)
(* / deletes / renames the file and one MODIFY change per hunk unless it   *)
(* deletes the file, also when it is listed after a DeletedFile entry of   *)
(* the same commit.                                                        *)
(***************************************************************************)
OperationOf(diffChange) ==
  CASE diffChange.type = "AddedFile" -> "ADD"
    [] diffChange.type = "DeletedFile" -> "DELETE"
    [] diffChange.type = "RenamedFile" -> "RENAME"
    [] OTHER -> "MODIFY"

\* how many changes of the list the commit has on the path with the type
CountOf(list, hash, path, type) ==
  Cardinality({i \in 1..Len(list) :
                 list[i].hash = hash /\ list[i].path = path
                   /\ list[i].type = type})

EntryIsBuilt(list, hash, diffChange) ==
  /\ OperationOf(diffChange) # "MODIFY" =>
        CountOf(list, hash, diffChange.path, OperationOf(diffChange)) = 1
  /\ CountOf(list, hash, diffChange.path, "MODIFY")
        = (IF diffChange.type = "DeletedFile" THEN 0 ELSE Len(diffChange.chunks))

C20_EveryEntryIsBuilt ==
  (pc = "store" /\ last.op = "none") =>
    \A c \in 1..Len(branch.commits) :
       \A e \in 1..Len(branch.commits[c].diff) :
          EntryIsBuilt(changes, branch.commits[c].commit.hash,
                       branch.commits[c].diff[e])

(***************************************************************************)
(* C14.  Materialization is blocked while a dependency is violated:        *)
(* rebase() is only started in a state where, for the current commits and  *)
(* change assignment of the rebaser, no commit has                         *)
(* hasChangeSetBeforeDependent, and a READY_TO_PUSH request made while a   *)
(* commit of rebaseCommits is flagged leaves the mode REBASING.            *)
(***************************************************************************)
\* some commit of the tree carries the flag
SomeCommitIsFlagged(tree) ==
  \E c \in DOMAIN tree : tree[c].hasChangeSetBeforeDependent = TRUE

\* the flag of the tree assembled from the current commits and changes; where
\* a change is assigned to no commit getRebaseCommits throws and there is no
\* tree whose commits could carry the flag
IsFlaggedNow ==
  /\ CanAssemble(commits, changes)
  /\ SomeCommitIsFlagged(getRebaseCommits(commits, changes,
                                          originalChangeReferences))

BuiltChanges == getFileChangesOfCommits(branch.commits)

IsBuiltBeforeEntryOf(previous, change) ==
  /\ previous.index < change.index
  /\ ~(previous.type = "MODIFY" /\ previous.hash = change.hash
         /\ previous.path = change.path)

RangeContainsStartOf(previous, change) ==
  /\ previous.type = "MODIFY" /\ previous.fileType = "text"
  /\ change.fileType = "text"
  /\ change.oldStart >= previous.oldStart
  /\ change.oldStart <= previous.oldStart + previous.newLines - previous.oldLines

ExpectedModifyDependencies(built, change) ==
  {built[j].index : j \in {j \in 1..Len(built) :
      /\ IsBuiltBeforeEntryOf(built[j], change)
      /\ built[j].path = change.path
      /\ \/ built[j].type \in {"ADD", "RENAME"}
         \/ RangeContainsStartOf(built[j], change)}}

DependencySet(change) ==
  {change.dependencies[d] : d \in 1..Len(change.dependencies)}

C21_ModifyDependenciesAreOnItsPath ==
  (pc = "store" /\ last.op = "none") =>
    \A i \in 1..Len(changes) :
       changes[i].type = "MODIFY" =>
         DependencySet(changes[i])
           = ExpectedModifyDependencies(BuiltChanges, BuiltChanges[i])

(***************************************************************************)
(* C22.  The dependencies of a DELETE change are exactly the indices of    *)
(* all changes created earlier on the same path, and the dependencies of a *)
(* RENAME change are exactly the indices of all changes created earlier on *)
(* the old path.                                                           *)
(***************************************************************************)
EarlierIndexesOnPath(list, change, path) ==
  {list[j].index : j \in {j \in 1..Len(list) :
      list[j].index < change.index /\ list[j].path = path}}

DependsOnAllEarlierOf(list, change, path) ==
  /\ DependencySet(change) = EarlierIndexesOnPath(list, change, path)
  /\ Len(change.dependencies) = Cardinality(DependencySet(change))

C22_FileOperationDependencies ==
  pc = "store" =>
    \A i \in 1..Len(changes) :
       /\ changes[i].type = "DELETE" =>
             DependsOnAllEarlierOf(changes, changes[i], changes[i].path)
       /\ changes[i].type = "RENAME" =>
             DependsOnAllEarlierOf(changes, changes[i], changes[i].oldFileName)

\* a rename of a file changed before, followed by the deletion of the file
C22_Witness ==
  /\ pc = "store"
  /\ \E i, j \in 1..Len(changes) :
        /\ changes[i].type = "RENAME" /\ Len(changes[i].dependencies) > 0
        /\ changes[j].type = "DELETE" /\ Len(changes[j].dependencies) > 0

(***************************************************************************)
(* C23.  applyChanges with one MODIFY(text) change whose window is [s, e]  *)
(* (0-based, the lines oldStart..oldStart + oldLines - 1 of the document)  *)
(* and whose deletions cover the e - s + 1 lines of the window returns the *)
(* document in which exactly the lines s..e are replaced by the inserted   *)
(* lines of the change, in their listed order; the lines before s and      *)
(* after e are kept unchanged and in order.                                *)
(***************************************************************************)
WindowStart(change) == change.oldStart - 1

WindowEnd(change) == change.oldStart + change.oldLines - 2

DeletionsCoverWindow(document, change) ==
  /\ change.oldLines >= 1
  /\ WindowStart(change) >= 0 /\ WindowEnd(change) < Len(document)
  /\ DeletedLines(change)
       = SubSeq(document, WindowStart(change) + 1, WindowEnd(change) + 1)

WindowReplaced(document, change) ==
  SubSeq(document, 1, WindowStart(change)) \o InsertedLines(change)
    \o SubSeq(document, WindowEnd(change) + 2, Len(document))

\* the text of an array of lines: no line at all is the text ""
TextOf(lines) == IF lines = <<>> THEN <<EmptyLine>> ELSE lines

AppliedOneWindow ==
  /\ patch.stage = "applied"
  /\ Len(patch.changes) = 1
  /\ isTextFileChange(patch.changes[1])
  /\ DeletionsCoverWindow(patch.document, patch.changes[1])

NetLineDelta(fileChanges) ==
  SumSeq([k \in 1..Len(fileChanges) |->
            IF isTextFileChange(fileChanges[k])
            THEN Len(InsertedLines(fileChanges[k]))
                   - Len(DeletedLines(fileChanges[k]))
            ELSE 0])

LinesOfFile(text) ==
  IF text[Len(text)] = EmptyLine THEN Len(text) - 1 ELSE Len(text)

C24_LineCountFollowsTheChanges ==
  (patch.stage = "applied" /\ ~patch.threw) =>
    \/ Len(patch.result) - Len(patch.document) = NetLineDelta(patch.changes)
    \/ LinesOfFile(patch.result) - LinesOfFile(patch.document)
         = NetLineDelta(patch.changes)

(***************************************************************************)
(* C25.  In every rebaseCommits tree the hasChangeSetBeforeDependent of a  *)
(* file is the OR of isSetBeforeDependent over the changes of the file,    *)
(* and the hasChangeSetBeforeDependent of a commit is the OR over its      *)
(* files, in whatever order flagged and unflagged changes and files are    *)
(* met.                                                                    *)
(***************************************************************************)
SomeChangeIsFlagged(file) ==
  \E e \in 1..Len(file.changes) : file.changes[e].isSetBeforeDependent

SomeFileIsFlagged(commit) ==
  \E f \in 1..Len(commit.files) : commit.files[f].hasChangeSetBeforeDependent

FlagsAreTheOrOfTheirChildren(tree) ==
  \A c \in 1..Len(tree) :
     /\ tree[c].hasChangeSetBeforeDependent = SomeFileIsFlagged(tree[c])
     /\ \A f \in 1..Len(tree[c].files) :
           tree[c].files[f].hasChangeSetBeforeDependent
             = SomeChangeIsFlagged(tree[c].files[f])

C25_FlagsPropagateAsOr == FlagsAreTheOrOfTheirChildren(rebaseCommits)

\* a commit whose first file is flagged and whose last file is not, and a
\* file whose first change is flagged and whose last change is not
C25_Witness ==
  /\ \E c \in 1..Len(rebaseCommits) :
        LET files == rebaseCommits[c].files
        IN /\ Len(files) >= 2
           /\ files[1].hasChangeSetBeforeDependent
           /\ ~files[Len(files)].hasChangeSetBeforeDependent
  /\ \E c \in 1..Len(rebaseCommits) :
        \E f \in 1..Len(rebaseCommits[c].files) :
           LET entries == rebaseCommits[c].files[f].changes
           IN /\ Len(entries) >= 2
              /\ entries[1].isSetBeforeDependent
              /\ ~entries[Len(entries)].isSetBeforeDependent

(***************************************************************************)
(* C26.  rebase() builds exactly one commit operation for each commit of   *)
(* the current commit list that owns at least one change not in trash,     *)
(* oldest commit first; commits that own no change and the trash produce   *)
(* no commit operation.                                                    *)
(***************************************************************************)
\* the commits of the current list that own a change, oldest first
OwningCommitsOldestFirst ==
  Reverse(SelectSeq(commits, LAMBDA commit : OwnsAChange(changes, commit.hash)))

\* the commits rebase() makes an operation for, in the order of the operations
CommitsOfTheOperations == CommitsToHandle(rebaseCommits)

C26_OneOperationPerOwningCommit ==
  mode = "PUSHING" =>
    /\ Len(CommitOperations(rebaseCommits)) = Len(OwningCommitsOldestFirst)
    /\ Hashes(CommitsOfTheOperations) = Hashes(OwningCommitsOldestFirst)
    /\ \A k \in 1..Len(OwningCommitsOldestFirst) :
          CommitOperations(rebaseCommits)[k].message
            = OwningCommitsOldestFirst[k].message

(***************************************************************************)
(* C27.  Diff preview for (fileName, hash): the "before" document has      *)
(* exactly the changes of the file that are not in trash and are owned by  *)
(* commits older than hash in the current commit order of the rebaser      *)
(* applied, and the "after" document additionally exactly the changes      *)
(* owned by hash; changes owned by newer commits or by trash are in        *)
(* neither, also after commits were added or reordered.  Stated for the    *)
(* commits of a store whose tree is up to date.                            *)
(***************************************************************************)
\* indexes of the changes of the file owned by a commit for which isOwner holds
IndexesOwnedBy(fileName, isOwner(_)) ==
  {changes[i].index : i \in {i \in 1..Len(changes) :
      /\ changes[i].path = fileName
      /\ changes[i].hash # "trash"
      /\ isOwner(changes[i].hash)}}

IndexSet(list) == {list[i].index : i \in 1..Len(list)}

PreviewAppliesTheRightChanges(fileName, hash) ==
  /\ IndexSet(ChangesBeforeHash(fileName, hash))
       = IndexesOwnedBy(fileName, LAMBDA owner : IsOlderCommit(owner, hash))
  /\ IndexSet(ChangesInHash(fileName, hash))
       = IndexesOwnedBy(fileName, LAMBDA owner : owner = hash)

C27_PreviewFollowsTheCurrentOrder ==
  (pc = "store" /\ Fresh) =>
    \A fileName \in Paths :
       \A c \in 1..Len(commits) :
          PreviewAppliesTheRightChanges(fileName, commits[c].hash)

(***************************************************************************)
(* C28: setSuggestedRebaseCommits replaces the commit list by one new      *)
(* commit per suggested message; when every diff of the response names a   *)
(* stored change and a suggested commit, each change a diff names ends in  *)
(* "trash" if the diff is dropped and otherwise in the new commit at the   *)
(* diff's commitIndex; and the call throws when a diff names no stored     *)
(* change.                                                                 *)
(***************************************************************************)
NamesAStoredChange(diff) ==
  \E i \in 1..Len(changes) : changes[i].index = diff.index

NamesASuggestedCommit(diff, k) == diff.isDropped \/ diff.commitIndex \in 0..(k - 1)

HashAfter(list, index) ==
  (CHOOSE change \in {list[i] : i \in 1..Len(list)} : change.index = index).hash

SuggestionOutcome(k, diffs, commitsAfter, changesAfter, threw) ==
  /\ Len(commitsAfter) = k
  /\ \A i \in 1..k :
        /\ ~Includes(Hashes(commits), commitsAfter[i].hash)
        /\ \A j \in 1..k : commitsAfter[j].hash = commitsAfter[i].hash => j = i
  /\ (\A d \in 1..Len(diffs) :
         NamesAStoredChange(diffs[d]) /\ NamesASuggestedCommit(diffs[d], k))
       => \A d \in 1..Len(diffs) :
             HashAfter(changesAfter, diffs[d].index) =
               (IF diffs[d].isDropped THEN "trash"
                ELSE commitsAfter[diffs[d].commitIndex + 1].hash)
  /\ (\E d \in 1..Len(diffs) : ~NamesAStoredChange(diffs[d])) => threw

C28_SuggestionReplacesCommitsAndAssignsChanges ==
  [][\A k \in 1..Len(NewNames), shape \in SuggestionShapes :
       (CanCall /\ ops = 0 /\ k <= Len(NewNames) - made
          /\ SetSuggestedRebaseCommitsWith(k, shape))
       => SuggestionOutcome(k, SuggestedDiffs(shape, k), commits', changes',
                            last'.threw)]_vars

\* a response of two commits was taken over: a change went to the second
\* commit, or one was dropped next to a change that was kept
C28_Witness ==
  /\ pc = "store"
  /\ last.op = "setSuggestedRebaseCommits"
  /\ ~last.threw
  /\ Len(commits) = 2
  /\ \E i \in 1..Len(changes) : changes[i].hash = commits[2].hash
  /\ \E i \in 1..Len(changes) : changes[i].hash = commits[1].hash

(***************************************************************************)
(* C29: moveChange of a change of the store to a commit of the store or to *)
(* "trash" returns normally and leaves the change in the target, also      *)
(* when the move places the change before one of its dependencies.         *)
(***************************************************************************)
IsStoredChange(fileName, index) ==
  \E i \in 1..Len(changes) :
     changes[i].path = fileName /\ changes[i].index = index

IsStoredTarget(targetHash) ==
  targetHash = "trash" \/ Includes(Hashes(commits), targetHash)

MoveOutcome(index, targetHash, changesAfter, threw) ==
  ~threw /\ HashAfter(changesAfter, index) = targetHash

C29_MoveChangeNeverThrows ==
  [][\A fileName \in Paths, index \in IndexArgs,
        targetHash \in HashArgs \cup {"trash"} :
       (CanCall /\ IsStoredChange(fileName, index) /\ IsStoredTarget(targetHash)
          /\ MoveChangeWith(fileName, index, targetHash))
       => MoveOutcome(index, targetHash, changes', last'.threw)]_vars

\* the same for calls on a store whose changes all lie in a commit of the
\* store or in "trash"
C29_WhenEveryHashIsACommit ==
  [][\A fileName \in Paths, index \in IndexArgs,
        targetHash \in HashArgs \cup {"trash"} :
       (CanCall /\ IsStoredChange(fileName, index) /\ IsStoredTarget(targetHash)
          /\ CanAssemble(commits, changes)
          /\ MoveChangeWith(fileName, index, targetHash))
       => MoveOutcome(index, targetHash, changes', last'.threw)]_vars

(***************************************************************************)
(* C30: moveCommit(hash, afterRef) with two different commits of the store *)
(* leaves the moved commit right after the target in the commit array,     *)
(* keeps the order of the other commits, and changes the hash of no        *)
(* change.                                                                 *)
(***************************************************************************)
HashOfIndex(list) ==
  {<<list[i].index, list[i].hash>> : i \in 1..Len(list)}

OthersKeepTheirOrder(hash, commitsBefore, commitsAfter) ==
  WithoutCommit(commitsAfter, hash) = WithoutCommit(commitsBefore, hash)

IsRightAfter(hash, afterRef, commitsAfter) ==
  CommitPosition(commitsAfter, hash) = CommitPosition(commitsAfter, afterRef) + 1

IsRightBefore(hash, afterRef, commitsAfter) ==
  CommitPosition(commitsAfter, hash) + 1 = CommitPosition(commitsAfter, afterRef)

MovesTwoCommits(hash, afterRef) ==
  /\ CanCall
  /\ hash # afterRef
  /\ Includes(Hashes(commits), hash)
  /\ Includes(Hashes(commits), afterRef)
  /\ MoveCommitWith(hash, afterRef)

C30_MovedCommitFollowsTheTarget ==
  [][\A hash \in HashArgs, afterRef \in HashArgs :
       MovesTwoCommits(hash, afterRef)
       => /\ IsRightAfter(hash, afterRef, commits')
          /\ OthersKeepTheirOrder(hash, commits, commits')
          /\ HashOfIndex(changes') = HashOfIndex(changes)]_vars

\* what the splice at the target's position gives: the moved commit is the
\* array element right before the target
C30_MovedCommitPrecedesTheTarget ==
  [][\A hash \in HashArgs, afterRef \in HashArgs :
       MovesTwoCommits(hash, afterRef)
       => /\ IsRightBefore(hash, afterRef, commits')
          /\ OthersKeepTheirOrder(hash, commits, commits')
          /\ HashOfIndex(changes') = HashOfIndex(changes)]_vars

(***************************************************************************)
(* C31: moveCommit(hash, "trash") for a commit of the store leaves in      *)
(* "trash" every change that commit owned and leaves the hash of every     *)
(* other change as it was.                                                 *)
(***************************************************************************)
HashBefore(index) == HashAfter(changes, index)

OnlyTheOwnedChangesAreTrashed(hash, changesAfter) ==
  /\ Len(changesAfter) = Len(changes)
  /\ \A i \in 1..Len(changes) :
        HashAfter(changesAfter, changes[i].index) =
          (IF changes[i].hash = hash THEN "trash" ELSE changes[i].hash)

C31_CommitToTrashTakesItsChangesOnly ==
  [][\A hash \in HashArgs :
       (CanCall /\ Includes(Hashes(commits), hash)
          /\ MoveCommitWith(hash, "trash"))
       => OnlyTheOwnedChangesAreTrashed(hash, changes')]_vars

\* the first call on a store of two commits moved one of them to trash: its
\* changes lie in trash, the changes of the other commit do not
C31_Witness ==
  /\ pc = "store"
  /\ ops = 1
  /\ last.op = "moveCommit"
  /\ ~last.threw
  /\ Len(branch.commits) = 2
  /\ Len(commits) = 1
  /\ \E i \in 1..Len(changes) :
        changes[i].hash = "trash" /\ changes[i].originalHash # commits[1].hash
  /\ \E i \in 1..Len(changes) : changes[i].hash = commits[1].hash

(***************************************************************************)
(* C32: the tree read from the store depends on the commit order and on    *)
(* the hash of every change only.  Two pairs of sequences that end alike   *)
(* are compared: a sequence that ends with the commit order and the hashes *)
(* the store was constructed with gives the tree of the store as           *)
(* constructed (the empty sequence); and a sequence followed by moving a   *)
(* change to trash and back to its commit gives the file entry the         *)
(* sequence alone gave.                                                    *)
(***************************************************************************)
EndsAsConstructed ==
  /\ pc = "store"
  /\ commits = ConstructedCommits(branch.commits)
  /\ \A i \in 1..Len(changes) : changes[i].hash = changes[i].originalHash

TreeAsConstructed ==
  getRebaseCommits(ConstructedCommits(branch.commits),
                   ConstructedChanges(branch.commits),
                   getOriginalChangeReferences(ConstructedChanges(branch.commits)))

EndsAsBeforeTheRoundTrip == rt.stage = "restored" /\ rt.target = rt.hash

EntryBeforeTheRoundTrip == rt.entry

C32_TreeDependsOnOrderAndHashesOnly ==
  /\ EndsAsConstructed => rebaseCommits = TreeAsConstructed
  /\ EndsAsBeforeTheRoundTrip =>
        TreeEntry(rebaseCommits, rt.hash, rt.before[1].path)
          = EntryBeforeTheRoundTrip

(***************************************************************************)
(* C33: a call of moveChange, moveCommit, removeCommit,                    *)
(* updateCommitMessage or setSuggestedRebaseCommits that ends with an      *)
(* error leaves the commit list, the hash of every change and the tree     *)
(* read from the store as they were before the call.                       *)
(***************************************************************************)
MutationsThatMayThrow ==
  {"moveChange", "moveCommit", "removeCommit", "updateCommitMessage",
   "setSuggestedRebaseCommits"}

EndedWithAnError ==
  /\ ops' = ops + 1
  /\ last'.op \in MutationsThatMayThrow
  /\ last'.threw

C33_ThrowingMutationHasNoEffect ==
  [][EndedWithAnError =>
       /\ commits' = commits
       /\ HashOfIndex(changes') = HashOfIndex(changes)
       /\ rebaseCommits' = rebaseCommits]_vars

(***************************************************************************)
(* C34: moveCommit(hash, afterRef) of a commit of the store, for every     *)
(* afterRef, "trash" included, leaves the set of commits as it was: the    *)
(* moved commit is still in the commit list.                               *)
(***************************************************************************)
CommitSet(list) == {list[i] : i \in 1..Len(list)}

C34_MoveCommitKeepsTheCommits ==
  [][\A hash \in HashArgs, afterRef \in HashArgs \cup {"trash"} :
       (CanCall /\ Includes(Hashes(commits), hash)
          /\ MoveCommitWith(hash, afterRef))
       => /\ CommitSet(commits') = CommitSet(commits)
          /\ Includes(Hashes(commits'), hash)]_vars

\* the same for a move after another commit of the store
C34_WhenMovedAfterAnotherCommit ==
  [][\A hash \in HashArgs, afterRef \in HashArgs :
       MovesTwoCommits(hash, afterRef)
       => /\ CommitSet(commits') = CommitSet(commits)
          /\ Includes(Hashes(commits'), hash)]_vars

(***************************************************************************)
(* C35: setRebaseMode("READY_TO_PUSH") throws exactly when the mode is not *)
(* REBASING and setRebaseMode("PUSHING") throws at the call exactly when   *)
(* the mode is not READY_TO_PUSH; a call that throws so leaves mode and    *)
(* Rebaser as they were; and the Rebaser that rebase() reads has gone from *)
(* REBASING to READY_TO_PUSH before.                                       *)
(***************************************************************************)
RequestsOf(requested) ==
  {i \in 1..Len(nicePR.requests) : nicePR.requests[i].requested = requested}

ThrewAtTheCall(request) == request.at = "threw" /\ request.log = <<>>

HasStartedRebase(request) == request.requested = "PUSHING" /\ request.rebaser # 0

GuardsThrow ==
  /\ \A i \in RequestsOf("READY_TO_PUSH") :
        ThrewAtTheCall(nicePR.requests[i])
          <=> nicePR.requests[i].modeAtCall # "REBASING"
  /\ \A i \in RequestsOf("PUSHING") :
        ThrewAtTheCall(nicePR.requests[i])
          <=> nicePR.requests[i].modeAtCall # "READY_TO_PUSH"

MaterializedAfterApproval ==
  \A i \in RequestsOf("PUSHING") :
     HasStartedRebase(nicePR.requests[i])
       => nicePR.rebasers[nicePR.requests[i].rebaser].approved

CallThrows ==
  /\ Len(nicePR'.requests) = Len(nicePR.requests) + 1
  /\ ThrewAtTheCall(nicePR'.requests[Len(nicePR'.requests)])

C35_ModeTransitionsAreGuarded ==
  /\ [](GuardsThrow /\ MaterializedAfterApproval)
  /\ [][CallThrows => /\ nicePR'.mode = nicePR.mode
                      /\ nicePR'.rebaser = nicePR.rebaser]_vars

\* a call of PUSHING was refused and a later one has started rebase()
C35_Witness ==
  /\ \E i \in RequestsOf("PUSHING") : ThrewAtTheCall(nicePR.requests[i])
  /\ \E i \in RequestsOf("PUSHING") :
        /\ HasStartedRebase(nicePR.requests[i])
        /\ nicePR.requests[i].log # <<>>

(***************************************************************************)
(* C36: a call of setRebaseMode("REBASING") made in mode READY_TO_PUSH     *)
(* that assigns the mode assigns REBASING with the Rebaser of the mode at  *)
(* the call, so the edits made on it are kept; and a call of REBASING that *)
(* assigns a newly built Rebaser was made in mode IDLE.                    *)
(***************************************************************************)
HasAssignedTheMode(request) == request.at = "returned" /\ request.rebaser # 0

KeepsTheRebaser(request) ==
  ~request.fresh /\ request.rebaser = request.rebaserAtCall

C36_EditRebaseKeepsTheRebaser ==
  \A i \in RequestsOf("REBASING") :
     HasAssignedTheMode(nicePR.requests[i]) =>
       /\ nicePR.requests[i].modeAtCall = "READY_TO_PUSH"
            => KeepsTheRebaser(nicePR.requests[i])
       /\ nicePR.requests[i].fresh => nicePR.requests[i].modeAtCall = "IDLE"

\* the first part for the calls that find the mode they were made in
C36_WhenTheModeIsStillReadyToPush ==
  [][\A i \in 1..Len(nicePR.requests) :
       (/\ nicePR.requests[i].requested = "REBASING"
        /\ nicePR.requests[i].at = "checkNeedsRebase"
        /\ nicePR.mode = "READY_TO_PUSH"
        /\ nicePR'.requests[i].at = "returned"
        /\ nicePR'.requests[i].rebaser # 0)
       => /\ nicePR'.mode = "REBASING"
          /\ nicePR'.rebaser = nicePR.rebaser
          /\ nicePR'.rebasers = nicePR.rebasers]_vars

(***************************************************************************)
(* C37: within one call of PUSHING the commit operations are computed      *)
(* before anything is done to git; the backup branch is set before the     *)
(* reset to the merge base; the commits are made in the order of the       *)
(* commit operations (oldest first), each right after its own files were   *)
(* written; the push follows the last commit; and the call of IDLE that    *)
(* returns the mode to IDLE is made after the push.                        *)
(***************************************************************************)
PositionIn(log, event, commit) ==
  IndexOf(log, GitEvent(event, commit)) + 1

\* the second event is in the log only after the first
ComesAfter(log, first, second) ==
  PositionIn(log, second[1], second[2]) # 0
    => /\ PositionIn(log, first[1], first[2]) # 0
       /\ PositionIn(log, first[1], first[2])
            < PositionIn(log, second[1], second[2])

RebaseInOrder(log) ==
  /\ log # <<>> => log[1] = GitEvent("operations", 0)
  /\ ComesAfter(log, <<"backup", 0>>, <<"reset", 0>>)
  /\ ComesAfter(log, <<"reset", 0>>, <<"files", 1>>)
  /\ \A k \in 1..CommitsToCreate :
        /\ ComesAfter(log, <<"files", k>>, <<"commit", k>>)
        /\ PositionIn(log, "commit", k) # 0
             => PositionIn(log, "commit", k) = PositionIn(log, "files", k) + 1
        /\ k > 1 => ComesAfter(log, <<"commit", k - 1>>, <<"files", k>>)
  /\ ComesAfter(log, <<"commit", CommitsToCreate>>, <<"push", 0>>)
  /\ \A e \in 1..Len(log) : \A f \in 1..Len(log) : log[e] = log[f] => e = f

C37_RebaseAndPushInOrder ==
  /\ \A i \in RequestsOf("PUSHING") : RebaseInOrder(nicePR.requests[i].log)
  /\ \A i \in RequestsOf("IDLE") :
        nicePR.requests[i].parent # 0
          => PositionIn(nicePR.requests[nicePR.requests[i].parent].log,
                        "push", 0) # 0

\* a rebase was pushed and the call of IDLE made after it has assigned the mode
C37_Witness ==
  \E i \in RequestsOf("IDLE") :
     /\ nicePR.requests[i].parent # 0
     /\ nicePR.requests[i].at = "returned"
     /\ nicePR.mode = "IDLE"
     /\ Len(nicePR.requests[nicePR.requests[i].parent].log)
          = 4 + 2 * CommitsToCreate

(***************************************************************************)
(* C38: while a call of PUSHING has started rebase() and has not ended, no *)
(* second call of PUSHING is inside rebase() or the push, and the Rebaser  *)
(* being materialized is not the Rebaser of mode REBASING, which the       *)
(* editor may change.                                                      *)
(***************************************************************************)
Materializing ==
  {i \in RequestsOf("PUSHING") :
     HasStartedRebase(nicePR.requests[i]) /\ IsPending(nicePR.requests[i])}

C38_OneMaterializationAtATime ==
  /\ \A i \in Materializing : \A j \in Materializing : i = j
  /\ \A i \in Materializing :
        ~(nicePR.mode = "REBASING"
            /\ nicePR.rebaser = nicePR.requests[i].rebaser)

\* the two halves apart
C38_NoSecondRebase == \A i \in Materializing : \A j \in Materializing : i = j

C38_NotHandedBackToTheEditor ==
  \A i \in Materializing :
     ~(nicePR.mode = "REBASING" /\ nicePR.rebaser = nicePR.requests[i].rebaser)

(***************************************************************************)
(* C39: a call of setRebaseMode made while a call of SUGGESTING is in      *)
(* flight is ignored: it assigns no mode and starts nothing; so the mode   *)
(* does not change between the call of SUGGESTING and the step that        *)
(* installs its Rebaser.                                                   *)
(***************************************************************************)
Suggesting ==
  {i \in RequestsOf("SUGGESTING") : IsPending(nicePR.requests[i])}

IsCalledNow ==
  /\ Len(nicePR'.requests) = Len(nicePR.requests) + 1
  /\ nicePR'.requests[Len(nicePR'.requests)].parent = 0

C39_RequestsAreIgnoredWhileSuggesting ==
  [][/\ (Suggesting # {} /\ IsCalledNow)
          => /\ nicePR'.requests[Len(nicePR'.requests)].at = "ignored"
             /\ nicePR'.mode = nicePR.mode
             /\ nicePR'.rebaser = nicePR.rebaser
     /\ \A i \in Suggesting :
           /\ nicePR.mode = nicePR.requests[i].modeAtCall
           /\ nicePR.rebaser = nicePR.requests[i].rebaserAtCall]_vars

(***************************************************************************)
(* C40: a run of initializeRepo whose state was replaced (by a newer run   *)
(* or by the closing of the repository), and whose AbortController was     *)
(* aborted by that, assigns the state of the Initializer no more, neither  *)
(* INITIALIZED when its query resolves nor ERROR when it rejects; and the  *)
(* dispose of every state that was replaced has been called exactly once.  *)
(***************************************************************************)
ReplacedStates == 1..(Len(initializer.objects) - 1)

NoAssignmentAfterAbort ==
  \A o \in 1..Len(initializer.objects) : ~initializer.objects[o].afterAbort

DisposedOnceWhenReplaced ==
  /\ \A o \in ReplacedStates :
        HasDispose(initializer.objects[o])
          => initializer.objects[o].disposed = 1
  /\ CurrentState.disposed = 0

C40_AbortedRunAssignsNoState ==
  NoAssignmentAfterAbort /\ DisposedOnceWhenReplaced

\* the parts that hold: an aborted run whose query resolves assigns nothing,
\* and every replaced state was disposed once
C40_ResolvedOrDisposed ==
  /\ \A o \in 1..Len(initializer.objects) :
        initializer.objects[o].afterAbort
          => initializer.objects[o].state = "ERROR"
  /\ DisposedOnceWhenReplaced

====
